---------------------------- MODULE Spec2Model ----------------------------
(***************************************************************************)
(* The Router Agent of src/a2a_agents.py: one request travelling through   *)
(* router_agent_node, the A2A helper call_a2a_agent and the agent servers' *)
(* invoke_agent endpoint.  Text is modelled as sequences of one-character  *)
(* strings so that the code's substring tests, case folding and regular    *)
(* expression are computed, not assumed.                                    *)
(***************************************************************************)
EXTENDS Integers, Sequences, FiniteSets, TLC

(***************************************************************************)
(* Bounds of the model.                                                    *)
(***************************************************************************)
\* A query is at most MaxWords vocabulary phrases joined by single spaces.
MaxWords == 2

\* The Tool Backend performs at most MaxOps operations in one run.
MaxOps == 2

\* The generation step of the Data Agent emits at most MaxToolCalls tool calls.
MaxToolCalls == 2

(***************************************************************************)
(* Python str operations used by the code.                                 *)
(***************************************************************************)
UpperChars == <<"A","B","C","D","E","F","G","H","I","J","K","L","M","N","O","P","Q","R","S","T","U","V","W","X","Y","Z">>  \* "ABCDEFGHIJKLMNOPQRSTUVWXYZ"
LowerChars == <<"a","b","c","d","e","f","g","h","i","j","k","l","m","n","o","p","q","r","s","t","u","v","w","x","y","z">>  \* "abcdefghijklmnopqrstuvwxyz"
DigitChars == {"0", "1", "2", "3", "4", "5", "6", "7", "8", "9"}
SpaceChars == {" ", "\n", "\t"}

\* A value no text equals: Python's None.
None == <<"<None>">>

\* The letter at the same place of the other alphabet.
LowerMap == [c \in { UpperChars[k] : k \in 1..26 } |->
                 LowerChars[CHOOSE k \in 1..26 : UpperChars[k] = c]]
UpperMap == [c \in { LowerChars[k] : k \in 1..26 } |->
                 UpperChars[CHOOSE k \in 1..26 : LowerChars[k] = c]]

\* str.lower()
lower(s) == [i \in 1..Len(s) |-> IF s[i] \in DOMAIN LowerMap THEN LowerMap[s[i]] ELSE s[i]]

\* str.upper()
upper(s) == [i \in 1..Len(s) |-> IF s[i] \in DOMAIN UpperMap THEN UpperMap[s[i]] ELSE s[i]]

\* The first index k >= j with s[k] not in set (Len(s)+1 when there is none).
SkipChars(s, j, set) ==
    CHOOSE k \in j..(Len(s) + 1) :
        /\ \A m \in j..(k - 1) : s[m] \in set
        /\ k = Len(s) + 1 \/ s[k] \notin set

\* str.strip()
strip(s) ==
    LET first == SkipChars(s, 1, SpaceChars)
        last  == IF first > Len(s) THEN 0
                 ELSE CHOOSE k \in first..Len(s) :
                          /\ s[k] \notin SpaceChars
                          /\ \A m \in (k + 1)..Len(s) : s[m] \in SpaceChars
    IN  IF first > Len(s) THEN <<>> ELSE SubSeq(s, first, last)

\* s[i:].startswith(p)
HasAt(s, i, p) ==
    /\ i + Len(p) - 1 <= Len(s)
    /\ \A k \in 1..Len(p) : s[i + k - 1] = p[k]

\* Python's  sub in s
Contains(sub, s) == \E i \in 1..(Len(s) - Len(sub) + 1) : HasAt(s, i, sub)

\* " ".join(ws)
RECURSIVE Join(_)
Join(ws) ==
    IF Len(ws) = 0 THEN <<>>
    ELSE IF Len(ws) = 1 THEN ws[1]
    ELSE ws[1] \o <<" ">> \o Join(Tail(ws))

(***************************************************************************)
(* re.search(r'(?:customer|id)\s*(\d+)', text): the digits captured by the *)
(* leftmost match, or None.                                                 *)
(***************************************************************************)
\* Where the digits of a match that starts at i begin and end (0, 0: no match at i).
MatchAt(s, i) ==
    LET kw == IF HasAt(s, i, <<"c","u","s","t","o","m","e","r">>) THEN 8  \* "customer"
              ELSE IF HasAt(s, i, <<"i","d">>) THEN 2  \* "id"
              ELSE 0
        d0 == SkipChars(s, i + kw, SpaceChars)
        d1 == SkipChars(s, d0, DigitChars)
    IN  IF kw = 0 \/ d1 = d0 THEN <<0, 0>> ELSE <<d0, d1 - 1>>

customer_id_match(s) ==
    IF \E i \in 1..Len(s) : MatchAt(s, i)[1] # 0
    THEN LET i == CHOOSE j \in 1..Len(s) :
                      /\ MatchAt(s, j)[1] # 0
                      /\ \A m \in 1..(j - 1) : MatchAt(s, m)[1] = 0
         IN  SubSeq(s, MatchAt(s, i)[1], MatchAt(s, i)[2])
    ELSE None


(***************************************************************************)
(* Inputs: the query texts, and what the generation steps and the          *)
(* downstream agents may answer.                                           *)
(***************************************************************************)
Words ==
    { <<"I"," ","n","e","e","d"," ","a"," ","r","e","f","u","n","d">>, <<"s","h","o","w"," ","m","e"," ","c","u","s","t","o","m","e","r"," ","5">>, <<"w","h","a","t"," ","a","r","e"," ","y","o","u","r"," ","h","o","u","r","s">>,  \* "I need a refund", "show me customer 5", "what are your hours"
      <<"c","h","a","r","g","e","d">>, <<"I","D","1","2">> }  \* "charged", "ID12"

Queries == { Join(ws) : ws \in UNION { [1..n -> Words] : n \in 0..MaxWords } }

\* What the classification generation step may return as message content.
ClassifierOutputs == { <<"D","A","T","A">>, <<"c","o","o","r","d","i","n","a","t","i","o","n","\n">>, <<"S","U","P","P","O","R","T">>, <<"D","A","T","A",".">> }  \* "DATA", "coordination\n", "SUPPORT", "DATA."

\* What the analysis generation step may return.
AnalysisOutputs == { <<"N","e","e","d","s"," ","b","i","l","l","i","n","g"," ","s","u","p","p","o","r","t",".">> }  \* "Needs billing support."

\* Final message content of the agent graphs behind the two agent servers.
AgentOutputs(agent_id) ==
    IF agent_id = "customer_data"
    THEN { <<"g","e","t","_","c","u","s","t","o","m","e","r",":"," ","{","\"","i","d","\"",":"," ","5","}">>,  \* "get_customer: {\"id\": 5}"
           <<"g","e","t","_","c","u","s","t","o","m","e","r",":"," ","E","R","R","O","R",":"," ","C","u","s","t","o","m","e","r"," ","9"," ","g","o","n","e">>,  \* "get_customer: ERROR: Customer 9 gone"
           <<"C","u","s","t","o","m","e","r"," ","N","o","t"," ","F","o","u","n","d">>,  \* "Customer Not Found"
           <<"H","T","T","P"," ","4","0","4">>,  \* "HTTP 404"
           <<"c","r","e","a","t","e","_","t","i","c","k","e","t",":"," ","I","n","v","a","l","i","d"," ","r","e","q","u","e","s","t">> }  \* "create_ticket: Invalid request"
    ELSE { <<"H","a","p","p","y"," ","t","o"," ","h","e","l","p",".">> }  \* "Happy to help."

\* Message of an exception raised by a generation step or inside an agent graph.
AgentErrors == { <<"m","o","d","e","l"," ","u","n","a","v","a","i","l","a","b","l","e">> }  \* "model unavailable"

\* What can happen to one HTTP POST: it is answered with status 200, or it
\* fails with a requests.exceptions.RequestException.
TransportFailures == { "connect_error", "timeout", "http_error" }

(***************************************************************************)
(* router_agent_node: the pure parts.                                      *)
(***************************************************************************)
AnyWordIn(words, text) == \E w \in words : Contains(w, text)

\* KeywordFallback with the two keyword tests in the other order.
KeywordFallback_DataFirst(user_query) ==
    IF AnyWordIn({ <<"g","e","t">>, <<"s","h","o","w">>, <<"l","i","s","t">>, <<"u","p","d","a","t","e">> }, lower(user_query))  \* "get", "show", "list", "update"
    THEN <<"D","A","T","A">>  \* "DATA"
    ELSE IF AnyWordIn({ <<"h","e","l","p">>, <<"u","p","g","r","a","d","e">>, <<"r","e","f","u","n","d">>, <<"c","a","n","c","e","l">>, <<"b","i","l","l","i","n","g">> },  \* "help", "upgrade", "refund", "cancel", "billing"
                      lower(user_query))
    THEN <<"C","O","O","R","D","I","N","A","T","I","O","N">>  \* "COORDINATION"
    ELSE <<"S","U","P","P","O","R","T">>  \* "SUPPORT"

\* The except branch of the classification step.
KeywordFallback(user_query) ==
    IF AnyWordIn({ <<"h","e","l","p">>, <<"u","p","g","r","a","d","e">>, <<"r","e","f","u","n","d">>, <<"c","a","n","c","e","l">>, <<"b","i","l","l","i","n","g">> },  \* "help", "upgrade", "refund", "cancel", "billing"
                 lower(user_query))
    THEN <<"C","O","O","R","D","I","N","A","T","I","O","N">>  \* "COORDINATION"
    ELSE IF AnyWordIn({ <<"g","e","t">>, <<"s","h","o","w">>, <<"l","i","s","t">>, <<"u","p","d","a","t","e">> }, lower(user_query))  \* "get", "show", "list", "update"
    THEN <<"D","A","T","A">>  \* "DATA"
    ELSE <<"S","U","P","P","O","R","T">>  \* "SUPPORT"

\* The classification chain's last stage: x.content.strip().upper()
ClassificationOf(content) == upper(strip(content))

extracted_customer_id(user_query) == customer_id_match(lower(user_query))

enhanced_query_of(user_query) ==
    LET id == extracted_customer_id(user_query)
    IN  IF /\ id # None
           /\ ~Contains(<<"c","u","s","t","o","m","e","r"," ">> \o id, lower(user_query))  \* "customer "
           /\ ~Contains(<<"i","d"," ">> \o id, lower(user_query))  \* "id "
        THEN user_query \o <<" ","(","C","u","s","t","o","m","e","r"," ","I","D",":"," ">> \o id \o <<")">>  \* " (Customer ID: ", ")"
        ELSE user_query

\* Route with the two-hop branch as the else branch.
Route_ElseCoordination(classification) ==
    IF classification = <<"D","A","T","A">> THEN "DATA"  \* "DATA"
    ELSE IF classification = <<"S","U","P","P","O","R","T">> THEN "SUPPORT"  \* "SUPPORT"
    ELSE "COORDINATION"

\* The branch the if / elif / else on classification takes.
Route(classification) ==
    IF classification = <<"D","A","T","A">> THEN "DATA"  \* "DATA"
    ELSE IF classification = <<"C","O","O","R","D","I","N","A","T","I","O","N">> THEN "COORDINATION"  \* "COORDINATION"
    ELSE "SUPPORT"

\* HasErrorMarker without the test for "ERROR".
HasErrorMarker_NoErrorWord(data_result) ==
    \/ Contains(<<"n","o","t"," ","f","o","u","n","d">>, lower(data_result))  \* "not found"
    \/ Contains(<<"4","0","4">>, data_result)  \* "404"

\* HasErrorMarker without the case folding.
HasErrorMarker_CaseSensitive(data_result) ==
    \/ Contains(<<"E","R","R","O","R">>, data_result)  \* "ERROR"
    \/ Contains(<<"n","o","t"," ","f","o","u","n","d">>, data_result)  \* "not found"
    \/ Contains(<<"4","0","4">>, data_result)  \* "404"

\* The COORDINATION branch's test for a failed lookup.
HasErrorMarker(data_result) ==
    \/ Contains(<<"E","R","R","O","R">>, data_result)  \* "ERROR"
    \/ Contains(<<"n","o","t"," ","f","o","u","n","d">>, lower(data_result))  \* "not found"
    \/ Contains(<<"4","0","4">>, data_result)  \* "404"

SyntheticAnalysis(data_result) ==
    <<"C","u","s","t","o","m","e","r"," ","d","a","t","a"," ","r","e","t","r","i","e","v","a","l"," ","f","a","i","l","e","d",":"," ">> \o data_result  \* "Customer data retrieval failed: "
        \o <<"."," ","T","h","e"," ","c","u","s","t","o","m","e","r"," ","I","D"," ","m","a","y"," ","n","o","t"," ","e","x","i","s","t"," ","i","n"," ","t","h","e"," ","d","a","t","a","b","a","s","e",".">>  \* ". The customer ID may not exist in the database."

SupportQuery(user_query, data_result, analysis) ==
    <<"C","u","s","t","o","m","e","r"," ","Q","u","e","r","y",":"," ">> \o user_query  \* "Customer Query: "
        \o <<"\n","\n","D","a","t","a"," ","A","g","e","n","t"," ","R","e","s","u","l","t",":"," ">> \o data_result  \* "\n\nData Agent Result: "
        \o <<"\n","\n","S","u","p","p","o","r","t"," ","C","o","n","t","e","x","t",":"," ">> \o analysis  \* "\n\nSupport Context: "

\* DataResponse that passes the result through one more rewriting step.
DataResponse_Rewritten(data_result) == <<"D","a","t","a"," ","r","e","t","r","i","e","v","e","d",":"," ">> \o lower(data_result)  \* "Data retrieved: "

DataResponse(data_result) == <<"D","a","t","a"," ","r","e","t","r","i","e","v","e","d",":"," ">> \o data_result  \* "Data retrieved: "
CoordinatedResponse(support_result) == <<"C","o","o","r","d","i","n","a","t","e","d"," ","R","e","s","p","o","n","s","e",":"," ">> \o support_result  \* "Coordinated Response: "
SupportResponse(support_result) == <<"S","u","p","p","o","r","t"," ","R","e","s","p","o","n","s","e",":"," ">> \o support_result  \* "Support Response: "

(***************************************************************************)
(* Tool Backend (src/mcp_server.py, src/server.py): JSON values, argument  *)
(* mappings and the relational store support.db.                           *)
(***************************************************************************)
\* JSON / Python values: null, an integer, a text.
Null == [null |-> TRUE]
Num(n) == [int |-> n]
Text(s) == [str |-> s]

\* Python truthiness:  not v
Falsy(v) == v \in { Null, Num(0), Text(<<>>) }

\* dict.get(key)
get(mapping, key) == IF key \in DOMAIN mapping THEN mapping[key] ELSE Null

Digits == <<"0","1","2","3","4","5","6","7","8","9">>  \* "0123456789"

\* str(n) of an integer n >= 0
RECURSIVE str_int(_)
str_int(n) ==
    IF n < 10 THEN << Digits[n + 1] >>
    ELSE str_int(n \div 10) \o << Digits[(n % 10) + 1] >>

\* The text an f-string puts in for v.
str(v) ==
    IF v = Null THEN <<"N","o","n","e">>  \* "None"
    ELSE IF "int" \in DOMAIN v THEN str_int(v.int)
    ELSE v.str

\* The columns of table customers and the values its rows may hold.
CustomerColumns == { "id", "name", "email", "phone", "status" }
CustomerStatuses == { Text(<<"a","c","t","i","v","e">>), Text(<<"d","i","s","a","b","l","e","d">>) }  \* "active", "disabled"
TicketPriorities == { Text(<<"l","o","w">>), Text(<<"m","e","d","i","u","m">>), Text(<<"h","i","g","h">>) }  \* "low", "medium", "high"

\* Whether table customers accepts these rows: integer ids, no id twice, a
\* status of the domain.
CustomersAccepted(rows) ==
    /\ \A i \in 1..Len(rows) :
          /\ "int" \in DOMAIN rows[i].id
          /\ rows[i].status \in CustomerStatuses
    /\ \A i, j \in 1..Len(rows) : rows[i].id = rows[j].id => i = j

\* Whether table tickets accepts this row.
TicketAccepted(row) == row.priority \in TicketPriorities

\* The store before the first operation: customers 1 and 5, and after them
\* the active customers 101 to 120, so that the active customers are more
\* than the open-tickets follow-up of the Data Agent looks at.
MoreCustomers ==
    [k \in 1..20 |-> [id |-> Num(100 + k), name |-> Text(<<"C">> \o str_int(100 + k)),  \* "C"
                      email |-> Null, phone |-> Null, status |-> Text(<<"a","c","t","i","v","e">>)]]  \* "active"

InitialCustomers ==
    << [id |-> Num(1), name |-> Text(<<"A","n","n">>), email |-> Text(<<"a","n","n","@","x",".","i","o">>),  \* "Ann", "ann@x.io"
        phone |-> Text(<<"5","5","5","-","0","1","0","1">>), status |-> Text(<<"a","c","t","i","v","e">>)],  \* "555-0101", "active"
       [id |-> Num(5), name |-> Text(<<"E","v","e">>), email |-> Text(<<"e","v","e","@","x",".","i","o">>),  \* "Eve", "eve@x.io"
        phone |-> Null, status |-> Text(<<"d","i","s","a","b","l","e","d">>)] >> \o MoreCustomers  \* "disabled"

InitialTickets ==
    << [id |-> Num(1), customer_id |-> Num(1), issue |-> Text(<<"l","o","g","i","n"," ","f","a","i","l","s">>),  \* "login fails"
        status |-> Text(<<"r","e","s","o","l","v","e","d">>), priority |-> Text(<<"h","i","g","h">>)],  \* "resolved", "high"
       [id |-> Num(2), customer_id |-> Num(1), issue |-> Text(<<"r","e","f","u","n","d"," ","d","u","e">>),  \* "refund due"
        status |-> Text(<<"o","p","e","n">>), priority |-> Text(<<"m","e","d","i","u","m">>)],  \* "open", "medium"
       [id |-> Num(3), customer_id |-> Num(110), issue |-> Text(<<"l","a","t","e">>),  \* "late"
        status |-> Text(<<"o","p","e","n">>), priority |-> Text(<<"l","o","w">>)],  \* "open", "low"
       [id |-> Num(4), customer_id |-> Num(120), issue |-> Text(<<"l","o","s","t">>),  \* "lost"
        status |-> Text(<<"o","p","e","n">>), priority |-> Text(<<"h","i","g","h">>)] >>  \* "open", "high"

\* SELECT * FROM customers WHERE id = ?   and fetchone()
SelectCustomer(rows, id) ==
    IF \E i \in 1..Len(rows) : rows[i].id = id
    THEN rows[CHOOSE i \in 1..Len(rows) :
                 /\ rows[i].id = id
                 /\ \A j \in 1..(i - 1) : rows[j].id # id]
    ELSE Null

\* SELECT * FROM customers [WHERE status = ?]   and fetchall()
SelectCustomers(rows, status) ==
    LET Matches(row) == row.status = status
    IN  IF Falsy(status) THEN rows ELSE SelectSeq(rows, Matches)

\* LIMIT n
Limit(rows, n) == IF n < Len(rows) THEN SubSeq(rows, 1, n) ELSE rows

\* SELECT * FROM tickets WHERE customer_id = ?   and fetchall()
SelectTickets(rows, customer_id) ==
    LET Matches(row) == row.customer_id = customer_id
    IN  SelectSeq(rows, Matches)

\* One row after SET k = ? for every key k of updates.
SetColumns(row, updates) ==
    [c \in DOMAIN row |-> IF c \in DOMAIN updates THEN updates[c] ELSE row[c]]

\* UPDATE customers SET ... WHERE id = ?  with commit: whether execute raised,
\* cursor.rowcount and the table afterwards.
UpdateCustomers(rows, updates, id) ==
    LET updated == [i \in 1..Len(rows) |->
                       IF rows[i].id = id THEN SetColumns(rows[i], updates)
                       ELSE rows[i]]
        rowcount == Cardinality({ i \in 1..Len(rows) : rows[i].id = id })
    IN  IF ~(DOMAIN updates \subseteq CustomerColumns) \/ ~CustomersAccepted(updated)
        THEN [raises |-> TRUE, rowcount |-> 0, customers |-> rows]
        ELSE [raises |-> FALSE, rowcount |-> rowcount, customers |-> updated]

\* INSERT INTO tickets of the column values in row, with commit: whether
\* execute raised, cursor.lastrowid and the table afterwards.
InsertTicket(rows, row) ==
    IF TicketAccepted(row)
    THEN [raises |-> FALSE, lastrowid |-> Len(rows) + 1,
          tickets |-> Append(rows, [id |-> Num(Len(rows) + 1)] @@ row)]
    ELSE [raises |-> TRUE, lastrowid |-> 0, tickets |-> rows]

(***************************************************************************)
(* mcp_server.py: POST /mcp/call_tool and PUT /mcp/update_customer/{id}.   *)
(* An operation takes the store [customers, tickets] and yields the HTTP   *)
(* response and the store afterwards.                                      *)
(***************************************************************************)
Ok(result) == [status |-> 200, result |-> result]

HTTPException(status_code, detail) == [status |-> status_code, detail |-> detail]

\* What FastAPI answers when the handler lets an exception escape.
InternalServerError == [status |-> 500, body |-> <<"I","n","t","e","r","n","a","l"," ","S","e","r","v","e","r"," ","E","r","r","o","r">>]  \* "Internal Server Error"

\* {k: v for k, v in arguments.items() if k != "customer_id" and v is not None}
updates_of(arguments) ==
    [k \in { c \in DOMAIN arguments : c # "customer_id" /\ arguments[c] # Null }
        |-> arguments[k]]

\* new_ticket that inserts the ticket as pending.
new_ticket_Pending(customer_id, issue, priority) ==
    [customer_id |-> customer_id, issue |-> issue, status |-> Text(<<"p","e","n","d","i","n","g">>),  \* "pending"
     priority |-> priority]

\* (customer_id, issue, status, priority) VALUES (?, ?, 'open', ?)
new_ticket(customer_id, issue, priority) ==
    [customer_id |-> customer_id, issue |-> issue, status |-> Text(<<"o","p","e","n">>),  \* "open"
     priority |-> priority]

\* AvailableTools that leaves the last operation out.
AvailableTools_ButLast == <<"g","e","t","_","c","u","s","t","o","m","e","r",","," ","l","i","s","t","_","c","u","s","t","o","m","e","r","s",","," ","u","p","d","a","t","e","_","c","u","s","t","o","m","e","r",","," ","c","r","e","a","t","e","_","t","i","c","k","e","t">>  \* "get_customer, list_customers, update_customer, create_ticket"

AvailableTools ==
    <<"g","e","t","_","c","u","s","t","o","m","e","r",","," ","l","i","s","t","_","c","u","s","t","o","m","e","r","s",","," ","u","p","d","a","t","e","_","c","u","s","t","o","m","e","r",","," ","c","r","e","a","t","e","_","t","i","c","k","e","t",","," ","g","e","t","_","c","u","s","t","o","m","e","r","_","h","i","s","t","o","r","y">>  \* "get_customer, list_customers, update_customer, create_ticket, get_customer_history"

call_tool(request, store) ==
    LET tool_name == get(request, "name")
        arguments == IF "arguments" \in DOMAIN request THEN request.arguments ELSE <<>>
        customer_id == get(arguments, "customer_id")
        Reply(response) == [response |-> response, store |-> store]
    IN  CASE tool_name = Text(<<"g","e","t","_","c","u","s","t","o","m","e","r">>) ->  \* "get_customer"
               IF Falsy(customer_id)
               THEN Reply(HTTPException(400, <<"c","u","s","t","o","m","e","r","_","i","d"," ","i","s"," ","r","e","q","u","i","r","e","d">>))  \* "customer_id is required"
               ELSE LET customer == SelectCustomer(store.customers, customer_id)
                    IN  IF customer = Null
                        THEN Reply(HTTPException(404,
                                 <<"C","u","s","t","o","m","e","r"," ">> \o str(customer_id) \o <<" ","n","o","t"," ","f","o","u","n","d">>))  \* "Customer ", " not found"
                        ELSE Reply(Ok(customer))
          [] tool_name = Text(<<"l","i","s","t","_","c","u","s","t","o","m","e","r","s">>) ->  \* "list_customers"
               LET status == get(arguments, "status")
                   limit == IF "limit" \in DOMAIN arguments THEN arguments["limit"]
                            ELSE Num(100)
               IN  IF "int" \in DOMAIN limit
                   THEN Reply(Ok(Limit(SelectCustomers(store.customers, status), limit.int)))
                   ELSE Reply(InternalServerError)
          [] tool_name = Text(<<"u","p","d","a","t","e","_","c","u","s","t","o","m","e","r">>) ->  \* "update_customer"
               IF Falsy(customer_id)
               THEN Reply(HTTPException(400, <<"c","u","s","t","o","m","e","r","_","i","d"," ","i","s"," ","r","e","q","u","i","r","e","d">>))  \* "customer_id is required"
               ELSE LET updates == updates_of(arguments)
                        done == UpdateCustomers(store.customers, updates, customer_id)
                    IN  IF DOMAIN updates = {}
                        THEN Reply(Ok([message |-> <<"N","o"," ","f","i","e","l","d","s"," ","t","o"," ","u","p","d","a","t","e">>]))  \* "No fields to update"
                        ELSE IF done.raises THEN Reply(InternalServerError)
                        ELSE IF done.rowcount = 0
                        THEN Reply(HTTPException(404, <<"C","u","s","t","o","m","e","r"," ","n","o","t"," ","f","o","u","n","d">>))  \* "Customer not found"
                        ELSE [response |-> Ok([status |-> <<"u","p","d","a","t","e","d">>, fields |-> updates]),  \* "updated"
                              store |-> [store EXCEPT !.customers = done.customers]]
          [] tool_name = Text(<<"c","r","e","a","t","e","_","t","i","c","k","e","t">>) ->  \* "create_ticket"
               LET issue == get(arguments, "issue")
                   priority == get(arguments, "priority")
                   done == InsertTicket(store.tickets, new_ticket(customer_id, issue, priority))
               IN  IF Falsy(customer_id) \/ Falsy(issue) \/ Falsy(priority)
                   THEN Reply(HTTPException(400,
                            <<"c","u","s","t","o","m","e","r","_","i","d",","," ","i","s","s","u","e",","," ","a","n","d"," ","p","r","i","o","r","i","t","y"," ","a","r","e"," ","r","e","q","u","i","r","e","d">>))  \* "customer_id, issue, and priority are required"
                   ELSE IF done.raises
                   THEN Reply(HTTPException(500, <<"C","H","E","C","K"," ","c","o","n","s","t","r","a","i","n","t"," ","f","a","i","l","e","d">>))  \* "CHECK constraint failed"
                   ELSE [response |-> Ok([status |-> <<"t","i","c","k","e","t","_","c","r","e","a","t","e","d">>,  \* "ticket_created"
                                          ticket_id |-> done.lastrowid]),
                         store |-> [store EXCEPT !.tickets = done.tickets]]
          [] tool_name = Text(<<"g","e","t","_","c","u","s","t","o","m","e","r","_","h","i","s","t","o","r","y">>) ->  \* "get_customer_history"
               IF Falsy(customer_id)
               THEN Reply(HTTPException(400, <<"c","u","s","t","o","m","e","r","_","i","d"," ","i","s"," ","r","e","q","u","i","r","e","d">>))  \* "customer_id is required"
               ELSE Reply(Ok(SelectTickets(store.tickets, customer_id)))
          [] OTHER ->
               Reply(HTTPException(404,
                   <<"T","o","o","l"," ","'">> \o str(tool_name) \o <<"'"," ","n","o","t"," ","f","o","u","n","d","."," ","A","v","a","i","l","a","b","l","e"," ","t","o","o","l","s",":"," ">>  \* "Tool '", "' not found. Available tools: "
                       \o AvailableTools))

\* {k: v for k, v in data.items() if v is not None}
rest_updates_of(data) ==
    [k \in { c \in DOMAIN data : data[c] # Null } |-> data[k]]

update_customer_rest(customer_id, data, store) ==
    LET updates == rest_updates_of(data)
        done == UpdateCustomers(store.customers, updates, customer_id)
    IN  IF DOMAIN updates = {}
        THEN [response |-> Ok([message |-> <<"N","o"," ","f","i","e","l","d","s"," ","t","o"," ","u","p","d","a","t","e">>]), store |-> store]  \* "No fields to update"
        ELSE IF done.raises THEN [response |-> InternalServerError, store |-> store]
        ELSE IF done.rowcount = 0
        THEN [response |-> HTTPException(404, <<"C","u","s","t","o","m","e","r"," ","n","o","t"," ","f","o","u","n","d">>), store |-> store]  \* "Customer not found"
        ELSE [response |-> Ok([status |-> <<"u","p","d","a","t","e","d">>, fields |-> updates]),  \* "updated"
              store |-> [store EXCEPT !.customers = done.customers]]

(***************************************************************************)
(* server.py: the same operations as FastMCP tools; each returns a text.   *)
(***************************************************************************)
\* json.dumps(value, indent=2)
json_dumps(value) == [json |-> value]

valid_keys == { "name", "email", "phone", "status" }

server_get_customer(customer_id, store) ==
    LET row == SelectCustomer(store.customers, customer_id)
    IN  [response |-> IF row # Null THEN json_dumps(row)
                      ELSE [text |-> <<"E","r","r","o","r",":"," ","C","u","s","t","o","m","e","r"," ","w","i","t","h"," ","I","D"," ">> \o str(customer_id)  \* "Error: Customer with ID "
                                         \o <<" ","n","o","t"," ","f","o","u","n","d",".">>],  \* " not found."
         store |-> store]

\* data is the outcome of json.loads: [decoded |-> FALSE] or
\* [decoded |-> TRUE, value |-> mapping].
server_update_customer(customer_id, data, store) ==
    LET Reply(text) == [response |-> [text |-> text], store |-> store]
        update_fields == data.value
        filtered_data == [k \in DOMAIN update_fields \cap valid_keys |-> update_fields[k]]
        done == UpdateCustomers(store.customers, filtered_data, customer_id)
    IN  IF ~data.decoded
        THEN Reply(<<"E","r","r","o","r",":"," ","'","d","a","t","a","'"," ","a","r","g","u","m","e","n","t"," ","m","u","s","t"," ","b","e"," ","a"," ","v","a","l","i","d"," ","J","S","O","N"," ","s","t","r","i","n","g",".">>)  \* "Error: 'data' argument must be a valid JSON string."
        ELSE IF DOMAIN filtered_data = {}
        THEN Reply(<<"E","r","r","o","r",":"," ","N","o"," ","v","a","l","i","d"," ","f","i","e","l","d","s"," ","p","r","o","v","i","d","e","d"," ","f","o","r"," ","u","p","d","a","t","e",".">>)  \* "Error: No valid fields provided for update."
        ELSE IF SelectCustomer(store.customers, customer_id) = Null
        THEN Reply(<<"E","r","r","o","r",":"," ","C","u","s","t","o","m","e","r"," ","w","i","t","h"," ","I","D"," ">> \o str(customer_id) \o <<" ","n","o","t"," ","f","o","u","n","d",".">>)  \* "Error: Customer with ID ", " not found."
        ELSE IF done.raises
        THEN Reply(<<"D","a","t","a","b","a","s","e"," ","E","r","r","o","r",":"," ","C","H","E","C","K"," ","c","o","n","s","t","r","a","i","n","t"," ","f","a","i","l","e","d">>)  \* "Database Error: CHECK constraint failed"
        ELSE [response |-> [text |-> <<"S","u","c","c","e","s","s","f","u","l","l","y"," ","u","p","d","a","t","e","d"," ","c","u","s","t","o","m","e","r"," ">>  \* "Successfully updated customer "
                                         \o str(customer_id) \o <<".">>],  \* "."
              store |-> [store EXCEPT !.customers = done.customers]]

\* (customer_id, issue, priority, status) VALUES (?, ?, ?, 'open')
server_new_ticket(customer_id, issue, priority) ==
    [customer_id |-> customer_id, issue |-> issue, priority |-> priority,
     status |-> Text(<<"o","p","e","n">>)]  \* "open"

server_create_ticket(customer_id, issue, priority, store) ==
    LET Reply(text) == [response |-> [text |-> text], store |-> store]
        done == InsertTicket(store.tickets, server_new_ticket(customer_id, issue, priority))
    IN  IF priority \notin TicketPriorities
        THEN Reply(<<"E","r","r","o","r",":"," ","P","r","i","o","r","i","t","y"," ","m","u","s","t"," ","b","e"," ","'","l","o","w","'",","," ","'","m","e","d","i","u","m","'",","," ","o","r"," ","'","h","i","g","h","'",".">>)  \* "Error: Priority must be 'low', 'medium', or 'high'."
        ELSE IF SelectCustomer(store.customers, customer_id) = Null
        THEN Reply(<<"E","r","r","o","r",":"," ","C","u","s","t","o","m","e","r"," ","w","i","t","h"," ","I","D"," ">> \o str(customer_id) \o <<" ","d","o","e","s"," ","n","o","t"," ","e","x","i","s","t",".">>)  \* "Error: Customer with ID ", " does not exist."
        ELSE IF done.raises
        THEN Reply(<<"D","a","t","a","b","a","s","e"," ","E","r","r","o","r",":"," ","C","H","E","C","K"," ","c","o","n","s","t","r","a","i","n","t"," ","f","a","i","l","e","d">>)  \* "Database Error: CHECK constraint failed"
        ELSE [response |-> [text |-> <<"T","i","c","k","e","t"," ","c","r","e","a","t","e","d"," ","s","u","c","c","e","s","s","f","u","l","l","y","."," ","T","i","c","k","e","t"," ","I","D",":"," ">>  \* "Ticket created successfully. Ticket ID: "
                                         \o str_int(done.lastrowid)],
              store |-> [store EXCEPT !.tickets = done.tickets]]

(***************************************************************************)
(* Python text operations of the Data Agent.                               *)
(***************************************************************************)
WordChars ==
    { UpperChars[k] : k \in 1..26 } \cup { LowerChars[k] : k \in 1..26 }
        \cup DigitChars \cup { "_" }

\* A digit that is not a decimal one, such as SUPERSCRIPT TWO, as one character.
OtherDigitChars == { "U+00B2" }

\* str.isdigit()
isdigit(s) == Len(s) > 0 /\ \A i \in 1..Len(s) : s[i] \in DigitChars \cup OtherDigitChars

\* Whether int(s) accepts a text for which isdigit holds.
isdecimal(s) == Len(s) > 0 /\ \A i \in 1..Len(s) : s[i] \in DigitChars

\* repr(s) of a text without quotes or escapes
repr_str(s) == <<"'">> \o s \o <<"'">>

\* int(s) of a text of decimal digits
RECURSIVE int_of(_)
int_of(s) ==
    IF Len(s) = 0 THEN 0
    ELSE 10 * int_of(SubSeq(s, 1, Len(s) - 1))
           + (CHOOSE d \in 0..9 : Digits[d + 1] = s[Len(s)])

\* re.search(keyword + r'\s*(\d+)', s): the digits captured by the leftmost
\* match, or None.
KeywordMatchAt(s, i, keyword) ==
    LET d0 == SkipChars(s, i + Len(keyword), SpaceChars)
        d1 == SkipChars(s, d0, DigitChars)
    IN  IF ~HasAt(s, i, keyword) \/ d1 = d0 THEN <<0, 0>> ELSE <<d0, d1 - 1>>

keyword_id_match(s, keyword) ==
    IF \E i \in 1..Len(s) : KeywordMatchAt(s, i, keyword)[1] # 0
    THEN LET i == CHOOSE j \in 1..Len(s) :
                      /\ KeywordMatchAt(s, j, keyword)[1] # 0
                      /\ \A m \in 1..(j - 1) : KeywordMatchAt(s, m, keyword)[1] = 0
         IN  SubSeq(s, KeywordMatchAt(s, i, keyword)[1], KeywordMatchAt(s, i, keyword)[2])
    ELSE None

\* int(m.group(1)) if m else None, as a JSON value
id_of_match(m) == IF m = None THEN Null ELSE Num(int_of(m))

\* re.search(r'to\s+([\w\.-]+@[\w\.-]+\.\w+)', s): where the address captured
\* by a match that starts at i begins and ends (0, 0: no match at i).
EmailMatchAt(s, i) ==
    LET a0 == SkipChars(s, i + 2, SpaceChars)
        a1 == SkipChars(s, a0, WordChars \cup { ".", "-" })
        r1 == SkipChars(s, a1 + 1, WordChars \cup { ".", "-" })
        Dots == { p \in (a1 + 2)..(r1 - 2) : s[p] = "." /\ s[p + 1] \in WordChars }
        dot == CHOOSE p \in Dots : \A q \in Dots : q <= p
    IN  IF \/ ~HasAt(s, i, <<"t","o">>)  \* "to"
           \/ a0 = i + 2
           \/ a1 = a0
           \/ a1 > Len(s)
           \/ s[a1] # "@"
           \/ Dots = {}
        THEN <<0, 0>>
        ELSE <<a0, SkipChars(s, dot + 1, WordChars) - 1>>

email_match(s) ==
    IF \E i \in 1..Len(s) : EmailMatchAt(s, i)[1] # 0
    THEN LET i == CHOOSE j \in 1..Len(s) :
                      /\ EmailMatchAt(s, j)[1] # 0
                      /\ \A m \in 1..(j - 1) : EmailMatchAt(s, m)[1] = 0
         IN  SubSeq(s, EmailMatchAt(s, i)[1], EmailMatchAt(s, i)[2])
    ELSE None

\* The end of the longest run of characters outside set that starts at j.
SkipUntil(s, j, set) ==
    IF \E k \in j..Len(s) : s[k] \in set
    THEN CHOOSE k \in j..Len(s) : s[k] \in set /\ \A m \in j..(k - 1) : s[m] \notin set
    ELSE Len(s) + 1

\* re.search(r"'email':\s*'([^']+)'", s): the captured text, or None.
QuotedEmailAt(s, i) ==
    LET v0 == SkipChars(s, i + 8, SpaceChars)
        v1 == SkipUntil(s, v0 + 1, { "'" })
    IN  IF \/ ~HasAt(s, i, <<"'","e","m","a","i","l","'",":">>)  \* "'email':"
           \/ v0 > Len(s)
           \/ s[v0] # "'"
           \/ v1 = v0 + 1
           \/ v1 > Len(s)
        THEN <<0, 0>>
        ELSE <<v0 + 1, v1 - 1>>

quoted_email_match(s) ==
    IF \E i \in 1..Len(s) : QuotedEmailAt(s, i)[1] # 0
    THEN LET i == CHOOSE j \in 1..Len(s) :
                      /\ QuotedEmailAt(s, j)[1] # 0
                      /\ \A m \in 1..(j - 1) : QuotedEmailAt(s, m)[1] = 0
         IN  SubSeq(s, QuotedEmailAt(s, i)[1], QuotedEmailAt(s, i)[2])
    ELSE None

\* re.search(r'(?:description|issue):\s*([^,]+)', s): the captured text, or None.
IssueAt(s, i) ==
    LET kw == IF HasAt(s, i, <<"d","e","s","c","r","i","p","t","i","o","n",":">>) THEN 12  \* "description:"
              ELSE IF HasAt(s, i, <<"i","s","s","u","e",":">>) THEN 6  \* "issue:"
              ELSE 0
        w1 == SkipChars(s, i + kw, SpaceChars)
        \* \s* gives one space back when nothing but spaces precede a comma or the end
        v0 == IF (w1 > Len(s) \/ s[w1] = ",") /\ w1 > i + kw THEN w1 - 1 ELSE w1
        v1 == SkipUntil(s, v0, { "," })
    IN  IF kw = 0 \/ v1 = v0 THEN <<0, 0>> ELSE <<v0, v1 - 1>>

issue_match(s) ==
    IF \E i \in 1..Len(s) : IssueAt(s, i)[1] # 0
    THEN LET i == CHOOSE j \in 1..Len(s) :
                      /\ IssueAt(s, j)[1] # 0
                      /\ \A m \in 1..(j - 1) : IssueAt(s, m)[1] = 0
         IN  SubSeq(s, IssueAt(s, i)[1], IssueAt(s, i)[2])
    ELSE None

(***************************************************************************)
(* json.dumps(value, indent=2) of what the Tool Backend hands back.  A     *)
(* JSON value is Null, Num(n), Text(s), [list |-> values] or               *)
(* [dict |-> << <<key, value>>, ... >>].                                   *)
(***************************************************************************)
List(items) == [list |-> items]
Dict(pairs) == [dict |-> pairs]

\* The name of a column or key as text.
KeyText ==
    [id |-> <<"i","d">>, name |-> <<"n","a","m","e">>, email |-> <<"e","m","a","i","l">>, phone |-> <<"p","h","o","n","e">>,  \* "id", "name", "email", "phone"
     status |-> <<"s","t","a","t","u","s">>, customer_id |-> <<"c","u","s","t","o","m","e","r","_","i","d">>, issue |-> <<"i","s","s","u","e">>,  \* "status", "customer_id", "issue"
     priority |-> <<"p","r","i","o","r","i","t","y">>, nickname |-> <<"n","i","c","k","n","a","m","e">>, limit |-> <<"l","i","m","i","t">>]  \* "priority", "nickname", "limit"

CustomerColumnOrder == << "id", "name", "email", "phone", "status" >>
TicketColumnOrder == << "id", "customer_id", "issue", "status", "priority" >>
UpdateFieldOrder == << "email", "name", "phone", "status", "id", "nickname" >>

\* dict(row)
RowDict(row, order) == Dict([i \in 1..Len(order) |-> << KeyText[order[i]], row[order[i]] >>])

\* A mapping as a dict, its keys in the given order.
MappingDict(mapping, order) ==
    LET In(k) == k \in DOMAIN mapping
        keys == SelectSeq(order, In)
    IN  Dict([i \in 1..Len(keys) |-> << KeyText[keys[i]], mapping[keys[i]] >>])

Spaces(n) == [i \in 1..n |-> " "]

RECURSIVE JoinWith(_, _)
JoinWith(sep, ws) ==
    IF Len(ws) = 0 THEN <<>>
    ELSE IF Len(ws) = 1 THEN ws[1]
    ELSE ws[1] \o sep \o JoinWith(sep, Tail(ws))

RECURSIVE dumps(_, _)
dumps(value, indent) ==
    IF value = Null THEN <<"n","u","l","l">>  \* "null"
    ELSE IF "int" \in DOMAIN value THEN str_int(value.int)
    ELSE IF "str" \in DOMAIN value THEN <<"\"">> \o value.str \o <<"\"">>
    ELSE IF "list" \in DOMAIN value
    THEN IF Len(value.list) = 0 THEN <<"[","]">>  \* "[]"
         ELSE <<"[","\n">>  \* "[\n"
                \o JoinWith(<<",","\n">>, [i \in 1..Len(value.list) |->  \* ",\n"
                       Spaces(indent + 2) \o dumps(value.list[i], indent + 2)])
                \o <<"\n">> \o Spaces(indent) \o <<"]">>  \* "\n", "]"
    ELSE IF Len(value.dict) = 0 THEN <<"{","}">>  \* "{}"
         ELSE <<"{","\n">>  \* "{\n"
                \o JoinWith(<<",","\n">>, [i \in 1..Len(value.dict) |->  \* ",\n"
                       Spaces(indent + 2) \o <<"\"">> \o value.dict[i][1] \o <<"\"",":"," ">>  \* "\": "
                           \o dumps(value.dict[i][2], indent + 2)])
                \o <<"\n">> \o Spaces(indent) \o <<"}">>  \* "\n", "}"

\* response.json()["result"] of an answer of call_tool to operation tool_name.
result_json(tool_name, result) ==
    CASE tool_name = <<"g","e","t","_","c","u","s","t","o","m","e","r">> -> RowDict(result, CustomerColumnOrder)  \* "get_customer"
      [] tool_name = <<"l","i","s","t","_","c","u","s","t","o","m","e","r","s">> ->  \* "list_customers"
            List([i \in 1..Len(result) |-> RowDict(result[i], CustomerColumnOrder)])
      [] tool_name = <<"g","e","t","_","c","u","s","t","o","m","e","r","_","h","i","s","t","o","r","y">> ->  \* "get_customer_history"
            List([i \in 1..Len(result) |-> RowDict(result[i], TicketColumnOrder)])
      [] tool_name = <<"u","p","d","a","t","e","_","c","u","s","t","o","m","e","r">> ->  \* "update_customer"
            IF "message" \in DOMAIN result
            THEN Dict(<< << <<"m","e","s","s","a","g","e">>, Text(result.message) >> >>)  \* "message"
            ELSE Dict(<< << <<"s","t","a","t","u","s">>, Text(result.status) >>,  \* "status"
                         << <<"f","i","e","l","d","s">>, MappingDict(result.fields, UpdateFieldOrder) >> >>)  \* "fields"
      [] tool_name = <<"c","r","e","a","t","e","_","t","i","c","k","e","t">> ->  \* "create_ticket"
            Dict(<< << <<"s","t","a","t","u","s">>, Text(result.status) >>,  \* "status"
                    << <<"t","i","c","k","e","t","_","i","d">>, Num(result.ticket_id) >> >>)  \* "ticket_id"

(***************************************************************************)
(* call_mcp_tool and the tool wrappers of the Data Agent.  A tool output   *)
(* is [text, parsed]: parsed is what json.loads makes of the text, absent  *)
(* when the text is not JSON.                                              *)
(***************************************************************************)
PlainOutput(text) == [text |-> text]

JsonOutput(value) == [text |-> dumps(value, 0), parsed |-> value]

\* How the request to the Tool Backend can go.
McpTransports == { "answered", "refused" }

call_mcp_tool(tool_name, arguments, store, transport) ==
    IF transport = "refused"
    THEN [output |-> PlainOutput(<<"E","R","R","O","R",":"," ","M","C","P"," ","c","a","l","l"," ","f","a","i","l","e","d",":"," ","C","o","n","n","e","c","t","i","o","n"," ","r","e","f","u","s","e","d">>),  \* "ERROR: MCP call failed: Connection refused"
          store |-> store,
          request |-> [name |-> Text(tool_name), arguments |-> arguments]]
    ELSE LET request == [name |-> Text(tool_name), arguments |-> arguments]
             done == call_tool(request, store)
             response == done.response
             error_detail == IF "detail" \in DOMAIN response THEN response.detail
                             ELSE response.body
         IN  [output |->
                 CASE response.status = 404 -> PlainOutput(<<"E","R","R","O","R",":"," ">> \o error_detail)  \* "ERROR: "
                   [] response.status = 400 ->
                         PlainOutput(<<"I","n","v","a","l","i","d"," ","r","e","q","u","e","s","t",":"," ">> \o error_detail)  \* "Invalid request: "
                   [] response.status = 200 ->
                         JsonOutput(result_json(tool_name, response.result))
                   [] OTHER ->
                         PlainOutput(<<"H","T","T","P"," ">> \o str_int(response.status) \o <<":"," ">>  \* "HTTP ", ": "
                                         \o error_detail),
              store |-> done.store,
              request |-> request]

\* What pydantic makes of an argument declared int: [ok, value].
coerce_int(v) ==
    IF "int" \in DOMAIN v THEN [ok |-> TRUE, value |-> v]
    ELSE IF "str" \in DOMAIN v /\ isdecimal(v.str) THEN [ok |-> TRUE, value |-> Num(int_of(v.str))]
    ELSE [ok |-> FALSE]

\* What pydantic makes of an argument declared Optional[str]: [ok, value].
coerce_optional_str(mapping, key) ==
    IF key \notin DOMAIN mapping \/ mapping[key] = Null THEN [ok |-> TRUE, value |-> Null]
    ELSE IF "str" \in DOMAIN mapping[key] THEN [ok |-> TRUE, value |-> mapping[key]]
    ELSE [ok |-> FALSE]

\* tool.invoke(...) raised before any request was posted.
ToolRaised(message, store) ==
    [raises |-> TRUE, message |-> message, store |-> store, requests |-> <<>>]

\* tool.invoke(...) returned what call_mcp_tool returned.
ToolReturned(done) ==
    [raises |-> FALSE, output |-> done.output, store |-> done.store,
     requests |-> << done.request >>]

\* update_customer_func, reached with validated arguments
update_customer_func(customer_id, fields, store, transport) ==
    call_mcp_tool(<<"u","p","d","a","t","e","_","c","u","s","t","o","m","e","r">>,  \* "update_customer"
                  ("customer_id" :> customer_id)
                      @@ [k \in { c \in DOMAIN fields : fields[c] # Null } |-> fields[k]],
                  store, transport)

\* list_customers_func
list_customers_func(status, limit, store, transport) ==
    call_mcp_tool(<<"l","i","s","t","_","c","u","s","t","o","m","e","r","s">>,  \* "list_customers"
                  ("limit" :> limit) @@ (IF Falsy(status) THEN <<>> ELSE "status" :> status),
                  store, transport)

\* get_customer_history_func
get_customer_history_func(customer_id, store, transport) ==
    call_mcp_tool(<<"g","e","t","_","c","u","s","t","o","m","e","r","_","h","i","s","t","o","r","y">>, "customer_id" :> customer_id, store, transport)  \* "get_customer_history"

\* selected_tool.invoke(tool_args) of the LangChain tool named tool_name:
\* the three StructuredTools validate the arguments against the signature of
\* their function, the two single-input Tools take exactly one argument.
invoke_tool(tool_name, tool_args, store, transport) ==
    CASE tool_name = <<"g","e","t","_","c","u","s","t","o","m","e","r">> ->  \* "get_customer"
            IF Cardinality(DOMAIN tool_args) # 1
            THEN ToolRaised(<<"T","o","o"," ","m","a","n","y"," ","a","r","g","u","m","e","n","t","s"," ","t","o"," ","s","i","n","g","l","e","-","i","n","p","u","t"," ","t","o","o","l"," ","g","e","t","_","c","u","s","t","o","m","e","r",".">>, store)  \* "Too many arguments to single-input tool get_customer."
            ELSE ToolReturned(call_mcp_tool(<<"g","e","t","_","c","u","s","t","o","m","e","r">>,  \* "get_customer"
                     "customer_id" :> tool_args[CHOOSE k \in DOMAIN tool_args : TRUE],
                     store, transport))
      [] tool_name = <<"c","r","e","a","t","e","_","t","i","c","k","e","t">> ->  \* "create_ticket"
            IF Cardinality(DOMAIN tool_args) # 1
            THEN ToolRaised(<<"T","o","o"," ","m","a","n","y"," ","a","r","g","u","m","e","n","t","s"," ","t","o"," ","s","i","n","g","l","e","-","i","n","p","u","t"," ","t","o","o","l"," ","c","r","e","a","t","e","_","t","i","c","k","e","t",".">>, store)  \* "Too many arguments to single-input tool create_ticket."
            ELSE ToolRaised(<<"<","l","a","m","b","d","a",">","(",")"," ","m","i","s","s","i","n","g"," ","2"," ","r","e","q","u","i","r","e","d"," ","p","o","s","i","t","i","o","n","a","l"," ","a","r","g","u","m","e","n","t","s",":"," ","'","i","s","s","u","e","'"," ","a","n","d"," ","'","p","r","i","o","r","i","t","y","'">>,  \* "<lambda>() missing 2 required positional arguments: 'issue' and 'priority'"
                        store)
      [] tool_name = <<"l","i","s","t","_","c","u","s","t","o","m","e","r","s">> ->  \* "list_customers"
            LET status == coerce_optional_str(tool_args, "status")
                limit == IF "limit" \in DOMAIN tool_args THEN coerce_int(tool_args["limit"])
                         ELSE [ok |-> TRUE, value |-> Num(100)]
            IN  IF ~status.ok \/ ~limit.ok
                THEN ToolRaised(<<"1"," ","v","a","l","i","d","a","t","i","o","n"," ","e","r","r","o","r"," ","f","o","r"," ","l","i","s","t","_","c","u","s","t","o","m","e","r","s">>, store)  \* "1 validation error for list_customers"
                ELSE ToolReturned(list_customers_func(status.value, limit.value, store, transport))
      [] tool_name = <<"u","p","d","a","t","e","_","c","u","s","t","o","m","e","r">> ->  \* "update_customer"
            LET customer_id == IF "customer_id" \in DOMAIN tool_args
                               THEN coerce_int(tool_args["customer_id"])
                               ELSE [ok |-> FALSE]
                Field(k) == coerce_optional_str(tool_args, k)
            IN  IF ~customer_id.ok \/ \E k \in valid_keys : ~Field(k).ok
                THEN ToolRaised(<<"1"," ","v","a","l","i","d","a","t","i","o","n"," ","e","r","r","o","r"," ","f","o","r"," ","u","p","d","a","t","e","_","c","u","s","t","o","m","e","r">>, store)  \* "1 validation error for update_customer"
                ELSE ToolReturned(update_customer_func(customer_id.value,
                                   [k \in valid_keys |-> Field(k).value], store, transport))
      [] tool_name = <<"g","e","t","_","c","u","s","t","o","m","e","r","_","h","i","s","t","o","r","y">> ->  \* "get_customer_history"
            LET customer_id == IF "customer_id" \in DOMAIN tool_args
                               THEN coerce_int(tool_args["customer_id"])
                               ELSE [ok |-> FALSE]
            IN  IF ~customer_id.ok
                THEN ToolRaised(<<"1"," ","v","a","l","i","d","a","t","i","o","n"," ","e","r","r","o","r"," ","f","o","r"," ","g","e","t","_","c","u","s","t","o","m","e","r","_","h","i","s","t","o","r","y">>, store)  \* "1 validation error for get_customer_history"
                ELSE ToolReturned(get_customer_history_func(customer_id.value, store, transport))

(***************************************************************************)
(* ast.literal_eval(text) on texts without brackets, parentheses, double   *)
(* quotes, escapes or adjacent literals: it accepts None, a decimal        *)
(* integer, a single-quoted text and a dict display of such keys and       *)
(* values, and raises for anything else.  A dict is                        *)
(* [pydict |-> << <<key, value>>, ... >>].                                 *)
(***************************************************************************)
NotALiteral == [raises |-> TRUE]

Literal(value, next) == [raises |-> FALSE, value |-> value, next |-> next]

\* The atom that starts at i: None, an integer or a quoted text.
AtomAt(s, i) ==
    LET d1 == SkipChars(s, i, DigitChars)
        q1 == SkipUntil(s, i + 1, { "'", "\\", "\n" })
    IN  IF i > Len(s) THEN NotALiteral
        ELSE IF HasAt(s, i, <<"N","o","n","e">>) THEN Literal(Null, i + 4)  \* "None"
        ELSE IF d1 > i
        THEN IF s[i] = "0" /\ \E k \in i..(d1 - 1) : s[k] # "0" THEN NotALiteral
             ELSE Literal(Num(int_of(SubSeq(s, i, d1 - 1))), d1)
        ELSE IF s[i] = "'" /\ q1 <= Len(s) /\ s[q1] = "'"
        THEN Literal(Text(SubSeq(s, i + 1, q1 - 1)), q1 + 1)
        ELSE NotALiteral

\* d[key] = value on the entries of a dict: a key keeps its first place.
PutEntry(pairs, entry) ==
    IF \E i \in 1..Len(pairs) : pairs[i][1] = entry[1]
    THEN [i \in 1..Len(pairs) |-> IF pairs[i][1] = entry[1] THEN entry ELSE pairs[i]]
    ELSE Append(pairs, entry)

\* The entries  key: value, key: value ...  that start at i, up to the closing brace.
RECURSIVE EntriesAt(_, _, _)
EntriesAt(s, i, pairs) ==
    LET k0 == SkipChars(s, i, SpaceChars)
        key == AtomAt(s, k0)
        c0 == SkipChars(s, key.next, SpaceChars)
        v0 == SkipChars(s, c0 + 1, SpaceChars)
        value == AtomAt(s, v0)
        e0 == SkipChars(s, value.next, SpaceChars)
        entry == << key.value, value.value >>
    IN  IF k0 <= Len(s) /\ s[k0] = "}" THEN Literal([pydict |-> pairs], k0 + 1)
        ELSE IF key.raises THEN NotALiteral
        ELSE IF c0 > Len(s) \/ s[c0] # ":" THEN NotALiteral
        ELSE IF value.raises THEN NotALiteral
        ELSE IF e0 > Len(s) THEN NotALiteral
        ELSE IF s[e0] = "}" THEN Literal([pydict |-> PutEntry(pairs, entry)], e0 + 1)
        ELSE IF s[e0] = "," THEN EntriesAt(s, e0 + 1, PutEntry(pairs, entry))
        ELSE NotALiteral

\* The value of a text that is one literal and nothing more.
WholeLiteral(parsed, length) ==
    IF parsed.raises THEN NotALiteral
    ELSE IF parsed.next # length + 1 THEN NotALiteral
    ELSE [raises |-> FALSE, value |-> parsed.value]

\* The literal at the start of a text without spaces around it.
LiteralAt(s) == IF Len(s) > 0 /\ s[1] = "{" THEN EntriesAt(s, 2, <<>>) ELSE AtomAt(s, 1)

literal_eval(text) == WholeLiteral(LiteralAt(strip(text)), Len(strip(text)))

\* isinstance(value, dict)
IsDict(value) == "pydict" \in DOMAIN value

\* key in parsed_dict
DictHas(value, key) == \E i \in 1..Len(value.pydict) : value.pydict[i][1] = Text(key)

\* parsed_dict[key]
DictGet(value, key) ==
    value.pydict[CHOOSE i \in 1..Len(value.pydict) : value.pydict[i][1] = Text(key)][2]

(***************************************************************************)
(* customer_data_agent_node: the id of the query and the argument          *)
(* normalization of each tool call.                                        *)
(***************************************************************************)
\* extracted_id: int(customer_id_match.group(1)) if customer_id_match else None
extracted_id_of(user_query) == id_of_match(customer_id_match(lower(user_query)))

\* int(m.group(1)) if m else 5
id_or_5(m) == IF m = None THEN Num(5) ELSE Num(int_of(m))

\* int(id_match.group(1)) if id_match else 5   for re.search(keyword + r'\s*(\d+)', ...)
keyword_id_or_5(user_query, keyword) ==
    id_or_5(keyword_id_match(lower(user_query), keyword))

\* str(arg_val).isdigit()
IsDigitArgument(arg_val) == arg_val # Null /\ isdigit(str(arg_val))

\* int(arg_val) raises for a digit that is not a decimal one
IntRaises(arg_val) == ~isdecimal(str(arg_val))

\* a or b
Or(a, b) == IF Falsy(a) THEN b ELSE a

\* get_customer_args with the id of the query put before the digits of __arg1.
get_customer_args_QueryFirst(tool_args_raw, user_query) ==
    "customer_id" :>
       (IF "customer_id" \in DOMAIN tool_args_raw THEN tool_args_raw["customer_id"]
        ELSE Or(extracted_id_of(user_query),
                IF "__arg1" \in DOMAIN tool_args_raw
                      /\ IsDigitArgument(tool_args_raw["__arg1"])
                THEN Num(int_of(str(tool_args_raw["__arg1"])))
                ELSE Num(5)))

\* tool_args of a get_customer tool call
get_customer_args(tool_args_raw, user_query) ==
    "customer_id" :>
       (IF "customer_id" \in DOMAIN tool_args_raw THEN tool_args_raw["customer_id"]
        ELSE IF "__arg1" \in DOMAIN tool_args_raw
        THEN IF IsDigitArgument(tool_args_raw["__arg1"])
             THEN Num(int_of(str(tool_args_raw["__arg1"])))
             ELSE Or(extracted_id_of(user_query), Num(5))
        ELSE Or(extracted_id_of(user_query), keyword_id_or_5(user_query, <<"i","d">>)))  \* "id"

\* The customer_id of update_customer, get_customer_history and create_ticket.
\* my_means_5: whether "my" in the query stands for customer 5.
customer_id_arg(tool_args_raw, user_query, my_means_5) ==
    IF "customer_id" \in DOMAIN tool_args_raw THEN tool_args_raw["customer_id"]
    ELSE Or(extracted_id_of(user_query),
            IF my_means_5 /\ Contains(<<"m","y">>, lower(user_query)) THEN Num(5)  \* "my"
            ELSE keyword_id_or_5(user_query, <<"i","d">>))  \* "id"

\* A mapping with key when the match found something, without it otherwise.
OfMatch(key, m) == IF m = None THEN <<>> ELSE key :> Text(m)

\* Lines 285-300: the email taken from __arg1, given what literal_eval made of it.
email_of_arg1(arg1_val, parsed_dict) ==
    IF parsed_dict.raises THEN OfMatch("email", quoted_email_match(arg1_val))
    ELSE IF IsDict(parsed_dict.value) /\ DictHas(parsed_dict.value, <<"e","m","a","i","l">>)  \* "email"
    THEN "email" :> DictGet(parsed_dict.value, <<"e","m","a","i","l">>)  \* "email"
    ELSE <<>>

\* Lines 302-309: the email when __arg1 gave none.
email_otherwise(from_arg1, tool_args_raw, user_query) ==
    IF "email" \in DOMAIN from_arg1 THEN from_arg1
    ELSE IF "email" \in DOMAIN tool_args_raw THEN "email" :> tool_args_raw["email"]
    ELSE OfMatch("email", email_match(lower(user_query)))

\* The email of an update_customer tool call, as a mapping with key email or none.
update_customer_email(tool_args_raw, user_query) ==
    email_otherwise(IF "__arg1" \in DOMAIN tool_args_raw
                    THEN email_of_arg1(str(tool_args_raw["__arg1"]),
                                       literal_eval(str(tool_args_raw["__arg1"])))
                    ELSE <<>>,
                    tool_args_raw, user_query)

\* tool_args of an update_customer tool call
update_customer_args(tool_args_raw, user_query) ==
    ("customer_id" :> customer_id_arg(tool_args_raw, user_query, TRUE))
        @@ update_customer_email(tool_args_raw, user_query)
        @@ [field \in { "name", "phone", "status" } \cap DOMAIN tool_args_raw
               |-> tool_args_raw[field]]

\* tool_args of a get_customer_history tool call
get_customer_history_args(tool_args_raw, user_query) ==
    "customer_id" :> customer_id_arg(tool_args_raw, user_query, TRUE)

\* tool_args of a list_customers tool call
list_customers_args(tool_args_raw, user_query) ==
    (IF "status" \in DOMAIN tool_args_raw THEN "status" :> tool_args_raw["status"]
     ELSE IF Contains(<<"a","c","t","i","v","e">>, lower(user_query)) THEN "status" :> Text(<<"a","c","t","i","v","e">>)  \* "active", "active"
     ELSE IF Contains(<<"d","i","s","a","b","l","e","d">>, lower(user_query)) THEN "status" :> Text(<<"d","i","s","a","b","l","e","d">>)  \* "disabled", "disabled"
     ELSE <<>>)
        @@ ("limit" :> IF "limit" \in DOMAIN tool_args_raw THEN tool_args_raw["limit"]
                       ELSE Num(100))

\* Whether a create_ticket tool call is turned into get_customer.
RedirectsCreateTicket(user_query) ==
    Contains(<<"u","p","g","r","a","d","e">>, lower(user_query)) \/ Contains(<<"n","e","e","d"," ","h","e","l","p">>, lower(user_query))  \* "upgrade", "need help"

\* issue_match.group(1).strip()
OfIssueMatch(m) == IF m = None THEN <<>> ELSE "issue" :> Text(strip(m))

\* The issue of a create_ticket tool call, as a mapping with key issue or none.
create_ticket_issue(tool_args_raw) ==
    IF "issue" \in DOMAIN tool_args_raw THEN "issue" :> tool_args_raw["issue"]
    ELSE IF "__arg1" \notin DOMAIN tool_args_raw THEN <<>>
    ELSE IF ~(\/ Contains(<<"d","e","s","c","r","i","p","t","i","o","n",":">>, str(tool_args_raw["__arg1"]))  \* "description:"
              \/ Contains(<<"i","s","s","u","e",":">>, str(tool_args_raw["__arg1"])))  \* "issue:"
    THEN <<>>
    ELSE OfIssueMatch(issue_match(str(tool_args_raw["__arg1"])))

\* tool_args of a create_ticket tool call that is not redirected
create_ticket_args(tool_args_raw, user_query) ==
    ("customer_id" :> customer_id_arg(tool_args_raw, user_query, FALSE))
        @@ create_ticket_issue(tool_args_raw)
        @@ ("priority" :> IF "priority" \in DOMAIN tool_args_raw
                          THEN tool_args_raw["priority"]
                          ELSE Text(<<"m","e","d","i","u","m">>))  \* "medium"

\* tool_args of a create_ticket tool call turned into get_customer
redirected_args(user_query) ==
    "customer_id" :> Or(extracted_id_of(user_query),
                        keyword_id_or_5(user_query, <<"c","u","s","t","o","m","e","r">>))  \* "customer"

DataAgentTools ==
    { <<"g","e","t","_","c","u","s","t","o","m","e","r">>, <<"l","i","s","t","_","c","u","s","t","o","m","e","r","s">>, <<"u","p","d","a","t","e","_","c","u","s","t","o","m","e","r">>, <<"c","r","e","a","t","e","_","t","i","c","k","e","t">>,  \* "get_customer", "list_customers", "update_customer", "create_ticket"
      <<"g","e","t","_","c","u","s","t","o","m","e","r","_","h","i","s","t","o","r","y">> }  \* "get_customer_history"

\* Lines 249-390: the tool that will be invoked and its arguments, or that
\* the normalization raised.
normalize(tool_call, user_query) ==
    LET tool_name == tool_call.name
        tool_args_raw == tool_call.args
        Parsed(name, tool_args) == [raises |-> FALSE, tool_name |-> name,
                                    tool_args |-> tool_args]
    IN  CASE tool_name = <<"g","e","t","_","c","u","s","t","o","m","e","r">> ->  \* "get_customer"
               IF /\ "customer_id" \notin DOMAIN tool_args_raw
                  /\ "__arg1" \in DOMAIN tool_args_raw
                  /\ IsDigitArgument(tool_args_raw["__arg1"])
                  /\ IntRaises(tool_args_raw["__arg1"])
               THEN [raises |-> TRUE,
                     message |-> <<"i","n","v","a","l","i","d"," ","l","i","t","e","r","a","l"," ","f","o","r"," ","i","n","t","(",")"," ","w","i","t","h"," ","b","a","s","e"," ","1","0",":"," ">>  \* "invalid literal for int() with base 10: "
                                     \o repr_str(str(tool_args_raw["__arg1"]))]
               ELSE Parsed(tool_name, get_customer_args(tool_args_raw, user_query))
          [] tool_name = <<"u","p","d","a","t","e","_","c","u","s","t","o","m","e","r">> ->  \* "update_customer"
               Parsed(tool_name, update_customer_args(tool_args_raw, user_query))
          [] tool_name = <<"g","e","t","_","c","u","s","t","o","m","e","r","_","h","i","s","t","o","r","y">> ->  \* "get_customer_history"
               Parsed(tool_name, get_customer_history_args(tool_args_raw, user_query))
          [] tool_name = <<"l","i","s","t","_","c","u","s","t","o","m","e","r","s">> ->  \* "list_customers"
               Parsed(tool_name, list_customers_args(tool_args_raw, user_query))
          [] tool_name = <<"c","r","e","a","t","e","_","t","i","c","k","e","t">> ->  \* "create_ticket"
               IF RedirectsCreateTicket(user_query)
               THEN Parsed(<<"g","e","t","_","c","u","s","t","o","m","e","r">>, redirected_args(user_query))  \* "get_customer"
               ELSE Parsed(tool_name, create_ticket_args(tool_args_raw, user_query))
          [] OTHER ->
               Parsed(tool_name,
                      [k \in { c \in DOMAIN tool_args_raw : c \notin { "__arg1", "arg1" } }
                          |-> tool_args_raw[k]])

(***************************************************************************)
(* customer_data_agent_node: one tool call of the generation step, the     *)
(* open-tickets follow-up and the rule pass.  A step hands back the        *)
(* requests it posted to the Tool Backend, the fragments it appended to    *)
(* all_results and the store afterwards.  history_transports[i] is how the *)
(* i-th get_customer_history request of a follow-up goes.                  *)
(***************************************************************************)
Pass(requests, fragments, store) ==
    [requests |-> requests, fragments |-> fragments, store |-> store]

\* Two steps one after the other.
Sequel(first, second) ==
    Pass(first.requests \o second.requests, first.fragments \o second.fragments,
         second.store)

\* try: all_results.append(label + tool.invoke(...))
\* except Exception as e: all_results.append(error_prefix + str(e))
Attempt(invoked, label, error_prefix) ==
    Pass(invoked.requests,
         << IF invoked.raises THEN error_prefix \o invoked.message
            ELSE label \o invoked.output.text >>,
         invoked.store)

\* customer.get(key) of a parsed JSON object
JsonGet(value, key) ==
    IF \E i \in 1..Len(value.dict) : value.dict[i][1] = key
    THEN value.dict[CHOOSE i \in 1..Len(value.dict) : value.dict[i][1] = key][2]
    ELSE Null

\* isinstance(value, list) of a tool output read by json.loads
IsJsonList(output) == "parsed" \in DOMAIN output /\ "list" \in DOMAIN output.parsed

\* [t for t in history if t.get('status') == 'open']
open_tickets_of(history) ==
    LET IsOpen(t) == JsonGet(t, <<"s","t","a","t","u","s">>) = Text(<<"o","p","e","n">>)  \* "status", "open"
    IN  SelectSeq(history, IsOpen)

\* The entry of results for a customer with these open tickets, if any.
open_tickets_entry(customer, open_tickets) ==
    IF Len(open_tickets) = 0 THEN <<>>
    ELSE << Dict(<< << <<"c","u","s","t","o","m","e","r","_","i","d">>, JsonGet(customer, <<"i","d">>) >>,  \* "customer_id", "id"
                    << <<"c","u","s","t","o","m","e","r","_","n","a","m","e">>, JsonGet(customer, <<"n","a","m","e">>) >>,  \* "customer_name", "name"
                    << <<"c","u","s","t","o","m","e","r","_","e","m","a","i","l">>, JsonGet(customer, <<"e","m","a","i","l">>) >>,  \* "customer_email", "email"
                    << <<"o","p","e","n","_","t","i","c","k","e","t","s">>, List(open_tickets) >> >>) >>  \* "open_tickets"

\* What one customer's history adds to the requests and to results; a history
\* that raised or is no JSON array adds no entry.
with_history(done, customer, history) ==
    [requests |-> done.requests \o history.requests,
     results |-> done.results \o
                    (IF ~history.raises /\ IsJsonList(history.output)
                     THEN open_tickets_entry(customer,
                                             open_tickets_of(history.output.parsed.list))
                     ELSE <<>>)]

\* A follow-up that looks at one customer more.
FetchLimit_TwentyOne == 20 + 1

\* customers_data[:20]
FetchLimit == 20

\* The loop over customers_data[:20] from customer i on.
RECURSIVE fetch_open_tickets(_, _, _, _, _)
fetch_open_tickets(customers_data, i, store, history_transports, done) ==
    IF i > Len(customers_data) \/ i > FetchLimit THEN done
    ELSE fetch_open_tickets(customers_data, i + 1, store, history_transports,
             IF Falsy(JsonGet(customers_data[i], <<"i","d">>)) THEN done  \* "id"
             ELSE with_history(done, customers_data[i],
                      invoke_tool(<<"g","e","t","_","c","u","s","t","o","m","e","r","_","h","i","s","t","o","r","y">>,  \* "get_customer_history"
                                  "customer_id" :> JsonGet(customers_data[i], <<"i","d">>),  \* "id"
                                  store, history_transports[i])))

\* "open tickets" in user_query.lower() or "open ticket" in user_query.lower()
AsksForOpenTickets(user_query) ==
    Contains(<<"o","p","e","n"," ","t","i","c","k","e","t","s">>, lower(user_query))  \* "open tickets"
        \/ Contains(<<"o","p","e","n"," ","t","i","c","k","e","t">>, lower(user_query))  \* "open ticket"

\* if results: append filtered_results  else: append if_none
filtered_results(fetched, if_none, store) ==
    Pass(fetched.requests,
         IF Len(fetched.results) > 0
         THEN << <<"f","i","l","t","e","r","e","d","_","r","e","s","u","l","t","s",":"," ">> \o dumps(List(fetched.results), 0) >>  \* "filtered_results: "
         ELSE if_none,
         store)

\* Lines 404-447: the follow-up of a list_customers output.
open_tickets_followup(tool_output, store, history_transports) ==
    IF ~IsJsonList(tool_output) THEN Pass(<<>>, <<>>, store)
    ELSE filtered_results(
             fetch_open_tickets(tool_output.parsed.list, 1, store, history_transports,
                                [requests |-> <<>>, results |-> <<>>]),
             << <<"N","o"," ","a","c","t","i","v","e"," ","c","u","s","t","o","m","e","r","s"," ","w","i","t","h"," ","o","p","e","n"," ","t","i","c","k","e","t","s"," ","f","o","u","n","d">> >>, store)  \* "No active customers with open tickets found"

\* Lines 397-454: what follows selected_tool.invoke(tool_args).
after_invoke(tool_name, user_query, invoked, history_transports) ==
    IF invoked.raises \/ tool_name # <<"l","i","s","t","_","c","u","s","t","o","m","e","r","s">> \/ ~AsksForOpenTickets(user_query)  \* "list_customers"
    THEN Attempt(invoked, tool_name \o <<":"," ">>, <<"E","r","r","o","r"," ","e","x","e","c","u","t","i","n","g"," ">> \o tool_name \o <<":"," ">>)  \* ": ", "Error executing ", ": "
    ELSE Sequel(Attempt(invoked, tool_name \o <<":"," ">>, <<>>),  \* ": "
                open_tickets_followup(invoked.output, invoked.store, history_transports))

\* One round of the loop over ai_msg.tool_calls: the tool and its arguments,
\* with what the round posted, appended and left in the store.
Round(parsed, pass) ==
    [raises |-> FALSE, tool_name |-> parsed.tool_name, tool_args |-> parsed.tool_args,
     requests |-> pass.requests, fragments |-> pass.fragments, store |-> pass.store]

\* Lines 392-454: a tool of an unknown name is not run at all.
run_parsed(parsed, user_query, store, transport, history_transports) ==
    IF parsed.raises THEN [raises |-> TRUE, message |-> parsed.message, store |-> store]
    ELSE IF parsed.tool_name \notin DataAgentTools THEN Round(parsed, Pass(<<>>, <<>>, store))
    ELSE Round(parsed,
               after_invoke(parsed.tool_name, user_query,
                            invoke_tool(parsed.tool_name, parsed.tool_args, store, transport),
                            history_transports))

\* Lines 248-454
run_tool_call(tool_call, user_query, store, transport, history_transports) ==
    run_parsed(normalize(tool_call, user_query), user_query, store, transport,
               history_transports)

\* get_customer_tool.invoke(n) with an integer instead of a text or a mapping:
\* the single-input Tool takes the values of its keyword arguments, which an
\* integer has not.
invoke_with_int(store) ==
    ToolRaised(<<"'","i","n","t","'"," ","o","b","j","e","c","t"," ","h","a","s"," ","n","o"," ","a","t","t","r","i","b","u","t","e"," ","'","v","a","l","u","e","s","'">>, store)  \* "'int' object has no attribute 'values'"

\* result = get_customer_tool.invoke(id) inside try / except of the rule pass
direct_get_customer(store) ==
    Attempt(invoke_with_int(store), <<"g","e","t","_","c","u","s","t","o","m","e","r",":"," ">>, <<"E","r","r","o","r",":"," ">>)  \* "get_customer: ", "Error: "

\* cust_id = extracted_id if extracted_id else 5
cust_id_of(user_query) == Or(extracted_id_of(user_query), Num(5))

\* Lines 501-511
update_email_step(cust_id, email, store, transport) ==
    IF email = None THEN Pass(<<>>, <<>>, store)
    ELSE Attempt(invoke_tool(<<"u","p","d","a","t","e","_","c","u","s","t","o","m","e","r">>,  \* "update_customer"
                             ("customer_id" :> cust_id) @@ ("email" :> Text(email)),
                             store, transport),
                 <<"u","p","d","a","t","e","_","c","u","s","t","o","m","e","r",":"," ">>, <<"E","r","r","o","r",":"," ">>)  \* "update_customer: ", "Error: "

\* Lines 513-520
history_step(query_lower, cust_id, first, transport) ==
    IF ~(Contains(<<"h","i","s","t","o","r","y">>, query_lower) \/ Contains(<<"t","i","c","k","e","t">>, query_lower))  \* "history", "ticket"
    THEN first
    ELSE Sequel(first,
                Attempt(invoke_tool(<<"g","e","t","_","c","u","s","t","o","m","e","r","_","h","i","s","t","o","r","y">>, "customer_id" :> cust_id,  \* "get_customer_history"
                                    first.store, transport),
                        <<"g","e","t","_","c","u","s","t","o","m","e","r","_","h","i","s","t","o","r","y",":"," ">>, <<"E","r","r","o","r"," ","g","e","t","t","i","n","g"," ","h","i","s","t","o","r","y",":"," ">>))  \* "get_customer_history: ", "Error getting history: "

\* Lines 499-520: update the email, then fetch the history if asked for.
direct_update_email(user_query, store, transport, history_transports) ==
    history_step(lower(user_query), cust_id_of(user_query),
                 update_email_step(cust_id_of(user_query), email_match(lower(user_query)),
                                   store, transport),
                 history_transports[1])

\* Lines 522-528
direct_history(user_query, store, transport) ==
    Attempt(invoke_tool(<<"g","e","t","_","c","u","s","t","o","m","e","r","_","h","i","s","t","o","r","y">>, "customer_id" :> cust_id_of(user_query),  \* "get_customer_history"
                        store, transport),
            <<"g","e","t","_","c","u","s","t","o","m","e","r","_","h","i","s","t","o","r","y",":"," ">>, <<"E","r","r","o","r",":"," ">>)  \* "get_customer_history: ", "Error: "

\* Lines 537-568: what follows customers_result = list_customers_func(...).
after_listing(listed, history_transports) ==
    Sequel(Pass(<< listed.request >>, << <<"l","i","s","t","_","c","u","s","t","o","m","e","r","s",":"," ">> \o listed.output.text >>,  \* "list_customers: "
                listed.store),
           IF "parsed" \notin DOMAIN listed.output
           THEN Pass(<<>>, << <<"E","r","r","o","r",":"," ","E","x","p","e","c","t","i","n","g"," ","v","a","l","u","e",":"," ","l","i","n","e"," ","1"," ","c","o","l","u","m","n"," ","1"," ","(","c","h","a","r"," ","0",")">> >>,  \* "Error: Expecting value: line 1 column 1 (char 0)"
                     listed.store)
           ELSE IF ~IsJsonList(listed.output) THEN Pass(<<>>, <<>>, listed.store)
           ELSE filtered_results(
                    fetch_open_tickets(listed.output.parsed.list, 1, listed.store,
                                       history_transports,
                                       [requests |-> <<>>, results |-> <<>>]),
                    <<>>, listed.store))

\* Lines 530-568
direct_active_customers(store, transport, history_transports) ==
    after_listing(list_customers_func(Text(<<"a","c","t","i","v","e">>), Num(100), store, transport),  \* "active"
                  history_transports)

\* Which branch of the rule pass a query takes (lines 462-579).
rule_of(query_lower) ==
    LET Has(sub) == Contains(sub, query_lower)
    IN  IF Has(<<"g","e","t"," ","c","u","s","t","o","m","e","r">>) \/ Has(<<"c","u","s","t","o","m","e","r"," ","i","n","f","o","r","m","a","t","i","o","n">>) THEN "get_customer"  \* "get customer", "customer information"
        ELSE IF Has(<<"i","'","m"," ","c","u","s","t","o","m","e","r">>) \/ Has(<<"i"," ","a","m"," ","c","u","s","t","o","m","e","r">>)  \* "i'm customer", "i am customer"
                   \/ (Has(<<"c","u","s","t","o","m","e","r">>) /\ Has(<<"n","e","e","d"," ","h","e","l","p">>))  \* "customer", "need help"
        THEN "customer_help"
        ELSE IF Has(<<"u","p","d","a","t","e">>) /\ Has(<<"e","m","a","i","l">>) THEN "update_email"  \* "update", "email"
        ELSE IF Has(<<"t","i","c","k","e","t"," ","h","i","s","t","o","r","y">>) \/ Has(<<"s","h","o","w"," ","m","y"," ","t","i","c","k","e","t","s">>) THEN "history"  \* "ticket history", "show my tickets"
        ELSE IF Has(<<"a","c","t","i","v","e"," ","c","u","s","t","o","m","e","r","s">>)  \* "active customers"
                   \/ (Has(<<"s","h","o","w">>) /\ Has(<<"a","c","t","i","v","e">>) /\ Has(<<"c","u","s","t","o","m","e","r","s">>))  \* "show", "active", "customers"
        THEN "active_customers"
        ELSE "fallback"

\* Whether the branch finds an id to call get_customer with.
rule_has_id(rule, extracted_id, query_lower) ==
    \/ ~Falsy(extracted_id)
    \/ rule = "get_customer" /\ keyword_id_match(query_lower, <<"i","d">>) # None  \* "id"
    \/ rule = "customer_help" /\ keyword_id_match(query_lower, <<"c","u","s","t","o","m","e","r">>) # None  \* "customer"

\* Lines 455-579: the branch the query text selects, run to its end.
run_rule(rule, user_query, store, transport, history_transports) ==
    CASE rule = "update_email" ->
            direct_update_email(user_query, store, transport, history_transports)
      [] rule = "history" -> direct_history(user_query, store, transport)
      [] rule = "active_customers" ->
            direct_active_customers(store, transport, history_transports)
      [] OTHER ->
            IF rule_has_id(rule, extracted_id_of(user_query), lower(user_query))
            THEN direct_get_customer(store)
            ELSE IF rule = "fallback"
            THEN Pass(<<>>, << <<"C","o","u","l","d"," ","n","o","t"," ","d","e","t","e","r","m","i","n","e"," ","a","c","t","i","o","n"," ","f","r","o","m"," ","q","u","e","r","y",":"," ">> \o user_query >>,  \* "Could not determine action from query: "
                      store)
            ELSE Pass(<<>>, <<>>, store)

rule_pass(user_query, store, transport, history_transports) ==
    run_rule(rule_of(lower(user_query)), user_query, store, transport, history_transports)

\* Line 582: "\n".join(all_results) if all_results else "No data retrieved"
data_result_of(all_results) ==
    IF Len(all_results) = 0 THEN <<"N","o"," ","d","a","t","a"," ","r","e","t","r","i","e","v","e","d">>  \* "No data retrieved"
    ELSE JoinWith(<<"\n">>, all_results)

\* Content of the message the node returns.
DataAgentResult(all_results) == <<"D","a","t","a"," ","A","g","e","n","t"," ","R","e","s","u","l","t",":"," ">> \o data_result_of(all_results)  \* "Data Agent Result: "

\* Content of the message the outer except returns for exception e.
DataAgentError(e) == <<"E","r","r","o","r"," ","i","n"," ","D","a","t","a"," ","A","g","e","n","t",":"," ">> \o e  \* "Error in Data Agent: "

(***************************************************************************)
(* The agent server's POST /a2a/{agent_id} endpoint.  outcome is what the  *)
(* agent graph does when invoked: [raises |-> FALSE, content |-> text] or  *)
(* [raises |-> TRUE, message |-> text].                                    *)
(***************************************************************************)
JsonRpcRequest(message) ==
    [jsonrpc |-> "2.0", method |-> "invoke",
     params |-> [messages |-> << [role |-> "user", content |-> message] >>],
     id |-> Num(1)]

PlainRequest(message) == [query |-> message]

JsonRpcError(message, id) ==
    [jsonrpc |-> "2.0", error |-> [code |-> -32000, message |-> message], id |-> id]

JsonRpcResult(response_content, id) ==
    [jsonrpc |-> "2.0",
     result |-> [content |-> response_content,
                 messages |-> << [role |-> "assistant", content |-> response_content] >>],
     id |-> id]

\* request.get("id", default)
request_id(request, default) == IF "id" \in DOMAIN request THEN request.id ELSE default

\* request.get("query", request.get("message", ""))
plain_query(request) ==
    IF "query" \in DOMAIN request THEN request.query
    ELSE IF "message" \in DOMAIN request THEN request.message
    ELSE <<>>

IsInvoke(request) == "method" \in DOMAIN request /\ request.method = "invoke"

\* Whether the endpoint reaches agent_graph.invoke for this request.
InvokesGraph(request) ==
    IF IsInvoke(request)
    THEN TRUE
    ELSE plain_query(request) # <<>>

\* invoke_agent that answers every request under the id 1.
invoke_agent_FixedId(request, outcome) ==
    IF IsInvoke(request)
    THEN IF outcome.raises
         THEN JsonRpcError(outcome.message, Num(1))
         ELSE JsonRpcResult(outcome.content, Num(1))
    ELSE IF plain_query(request) = <<>>
         THEN JsonRpcError(<<"4","0","0",":"," ","Q","u","e","r","y"," ","o","r"," ","m","e","s","s","a","g","e"," ","r","e","q","u","i","r","e","d">>, Num(1))  \* "400: Query or message required"
         ELSE IF outcome.raises
              THEN JsonRpcError(outcome.message, Num(1))
              ELSE [response |-> outcome.content,
                    messages |-> << [role |-> "assistant", content |-> outcome.content] >>]

invoke_agent(request, outcome) ==
    IF IsInvoke(request)
    THEN IF outcome.raises
         THEN JsonRpcError(outcome.message, request_id(request, Num(1)))
         ELSE JsonRpcResult(outcome.content, request_id(request, Num(1)))
    ELSE IF plain_query(request) = <<>>
         THEN JsonRpcError(<<"4","0","0",":"," ","Q","u","e","r","y"," ","o","r"," ","m","e","s","s","a","g","e"," ","r","e","q","u","i","r","e","d">>, request_id(request, Num(1)))  \* "400: Query or message required"
         ELSE IF outcome.raises
              THEN JsonRpcError(outcome.message, request_id(request, Num(1)))
              ELSE [response |-> outcome.content,
                    messages |-> << [role |-> "assistant", content |-> outcome.content] >>]

(***************************************************************************)
(* start_agents.py: the endpoint of the servers that script starts.        *)
(***************************************************************************)
\* messages[0].get("content", "") of an invoke request, "" without messages.
first_content(request) ==
    LET messages == IF "params" \in DOMAIN request /\ "messages" \in DOMAIN request.params
                    THEN request.params.messages ELSE <<>>
    IN  IF Len(messages) = 0 THEN <<>>
        ELSE IF "content" \in DOMAIN messages[1] THEN messages[1].content
        ELSE <<>>

\* parts[0].get("text", "") of a message/send request, "" without parts.
first_part_text(request) ==
    LET parts == IF /\ "params" \in DOMAIN request
                    /\ "message" \in DOMAIN request.params
                    /\ "parts" \in DOMAIN request.params.message
                 THEN request.params.message.parts ELSE <<>>
    IN  IF Len(parts) = 0 THEN <<>>
        ELSE IF "text" \in DOMAIN parts[1] THEN parts[1].text
        ELSE <<>>

\* Whether that endpoint reaches agent_graph.invoke for this request.
StartAgentsInvokesGraph(request) ==
    IF "method" \in DOMAIN request /\ request.method = "message/send"
    THEN first_part_text(request) # <<>>
    ELSE IF IsInvoke(request)
    THEN strip(first_content(request)) # <<>>
    ELSE plain_query(request) # <<>>

start_agents_invoke_agent(request, outcome) ==
    LET Failed(message) == JsonRpcError(message, request_id(request, Text(<<>>)))
    IN  IF "method" \in DOMAIN request /\ request.method = "message/send"
        THEN IF first_part_text(request) = <<>>
             THEN Failed(<<"N","o"," ","t","e","x","t"," ","c","o","n","t","e","n","t"," ","f","o","u","n","d"," ","i","n"," ","m","e","s","s","a","g","e"," ","p","a","r","t","s">>)  \* "No text content found in message parts"
             ELSE IF outcome.raises THEN Failed(outcome.message)
             ELSE [jsonrpc |-> "2.0",
                   result |-> [artifacts |-> << [parts |-> << [kind |-> "text",
                                                               text |-> outcome.content] >>] >>],
                   id |-> request_id(request, Text(<<>>))]
        ELSE IF IsInvoke(request)
        THEN IF first_content(request) = <<>>
             THEN Failed(<<"N","o"," ","c","o","n","t","e","n","t"," ","f","o","u","n","d"," ","i","n"," ","m","e","s","s","a","g","e","s">>)  \* "No content found in messages"
             ELSE IF strip(first_content(request)) = <<>>
             THEN Failed(<<"E","m","p","t","y"," ","m","e","s","s","a","g","e"," ","c","o","n","t","e","n","t">>)  \* "Empty message content"
             ELSE IF outcome.raises THEN Failed(outcome.message)
             ELSE JsonRpcResult(outcome.content, request_id(request, Num(1)))
        ELSE IF plain_query(request) = <<>>
             THEN Failed(<<"N","o"," ","q","u","e","r","y"," ","o","r"," ","m","e","s","s","a","g","e"," ","p","r","o","v","i","d","e","d">>)  \* "No query or message provided"
             ELSE IF outcome.raises THEN Failed(outcome.message)
             ELSE [response |-> outcome.content]

(***************************************************************************)
(* call_a2a_agent: what it returns for an answered request.                *)
(***************************************************************************)
\* str() of the error object of a JSON-RPC error response.
ErrorRepr(error) ==
    <<"{","'","c","o","d","e","'",":"," ","-","3","2","0","0","0",","," ","'","m","e","s","s","a","g","e","'",":"," ","'">> \o error.message \o <<"'","}">>  \* "{'code': -32000, 'message': '", "'}"

\* str() of a whole JSON-RPC error response.
ErrorResponseRepr(result) ==
    <<"{","'","j","s","o","n","r","p","c","'",":"," ","'","2",".","0","'",","," ","'","e","r","r","o","r","'",":"," ">> \o ErrorRepr(result.error) \o <<","," ","'","i","d","'",":"," ","1","}">>  \* "{'jsonrpc': '2.0', 'error': ", ", 'id': 1}"

\* The return value after the primary request was answered with body result.
PrimaryReturn(result) ==
    IF "error" \in DOMAIN result
    THEN <<"E","R","R","O","R",":"," ">> \o ErrorRepr(result.error)  \* "ERROR: "
    ELSE result.result.content

\* The return value after the fallback request was answered with body result.
FallbackReturn(result) ==
    IF "response" \in DOMAIN result THEN result.response
    ELSE ErrorResponseRepr(result)

ExceptionText(failure) ==
    CASE failure = "connect_error" -> <<"C","o","n","n","e","c","t","i","o","n"," ","r","e","f","u","s","e","d">>  \* "Connection refused"
      [] failure = "timeout"       -> <<"R","e","a","d"," ","t","i","m","e","d"," ","o","u","t">>  \* "Read timed out"
      [] failure = "http_error"    -> <<"5","0","3"," ","S","e","r","v","e","r"," ","E","r","r","o","r">>  \* "503 Server Error"

\* FailedReturn that hands the exception text back as it is.
FailedReturn_NoPrefix(agent_id, failure) == ExceptionText(failure)

\* The return value after the fallback request failed too.
FailedReturn(agent_id, failure) ==
    <<"E","R","R","O","R",":"," ","F","a","i","l","e","d"," ","t","o"," ","c","a","l","l"," ","a","g","e","n","t"," ","'">>  \* "ERROR: Failed to call agent '"
        \o (IF agent_id = "customer_data" THEN <<"c","u","s","t","o","m","e","r","_","d","a","t","a">> ELSE <<"s","u","p","p","o","r","t">>)  \* "customer_data", "support"
        \o <<"'",":"," ">> \o ExceptionText(failure)  \* "': "


(***************************************************************************)
(* State of one Router request.                                            *)
(***************************************************************************)
VARIABLES
    pc,              \* where router_agent_node stands
    user_query,      \* content of the last message of the request
    classification,  \* the label the dispatch branches on
    classified_by,   \* "llm": the chain returned; "fallback": the except branch ran
    llm_calls,       \* generation steps the Router has started
    enhanced_query,  \* the query with its customer-id annotation
    callee,          \* agent_id of the call_a2a_agent call in progress
    message,         \* message of the call_a2a_agent call in progress
    sent,            \* per agent: the message call_a2a_agent was called with
    calls,           \* per agent: calls of call_a2a_agent
    posts,           \* per agent: requests.post calls
    processed,       \* per agent: times the server reached agent_graph.invoke
    attempts,        \* per agent: how the primary and fallback requests ended
    data_result,     \* return value of the Data Agent call
    analysis,        \* the support context of the COORDINATION branch
    analysed_by,     \* "llm": the analysis chain; "synthetic": the error branch
    support_result,  \* return value of the Support Agent call
    response,        \* content of the AIMessage router_agent_node returns
    raised           \* message of the exception router_agent_node raised

vars ==
    << pc, user_query, classification, classified_by, llm_calls, enhanced_query,
       callee, message, sent, calls, posts, processed, attempts, data_result,
       analysis, analysed_by, support_result, response, raised >>

(***************************************************************************)
(* State of an agent server and of the Tool Backend.                       *)
(***************************************************************************)
VARIABLES
    served,       \* the last request an agent server answered, with its answer
    customers,    \* rows of table customers, in storage order
    tickets,      \* rows of table tickets, in storage order
    tb_request,   \* the last operation asked of the Tool Backend
    tb_response,  \* what the Tool Backend answered
    tb_ops        \* operations the Tool Backend has performed

server_vars == << served >>

backend_vars == << customers, tickets, tb_request, tb_response, tb_ops >>

(***************************************************************************)
(* State of one Data Agent request.                                        *)
(***************************************************************************)
VARIABLES
    da_pc,           \* where customer_data_agent_node stands
    da_query,        \* user_query
    da_content,      \* ai_msg.content, the chat text of the generation step
    da_tool_calls,   \* the tool calls of ai_msg not yet run
    da_rounds,       \* per tool call run: the tool invoked, its arguments, its requests
    da_requests,     \* the requests posted to the Tool Backend, in order
    da_all_results,  \* all_results
    da_response      \* content of the AIMessage the node returns

da_vars ==
    << da_pc, da_query, da_content, da_tool_calls, da_rounds, da_requests, da_all_results,
       da_response >>

data_agent_vars == << da_vars, customers, tickets >>

(***************************************************************************)
(* State of one run of the single-process graph (agents.py).               *)
(***************************************************************************)
VARIABLES
    g_pc,          \* the node the graph runs next, "end" or "raised"
    g_messages,    \* state['messages']: the contents, in order
    g_context,     \* state['context'] (None: the key is not set)
    g_next_node,   \* state['next_node'] (None: the key is not set)
    g_response,    \* router_node: response, the label the routing tests
    g_ai_msg,      \* customer_data_agent_node: ai_msg, once produced
    g_visits       \* the nodes run so far, in order

graph_vars ==
    << g_pc, g_messages, g_context, g_next_node, g_response, g_ai_msg, g_visits >>

(***************************************************************************)
(* State of the Support Agent handling one request (support_agent_node of  *)
(* a2a_agents.py).                                                         *)
(***************************************************************************)
VARIABLES
    sa_pc,         \* "idle", "agent" (the node runs next), "done" or "raised"
    sa_messages,   \* state['messages']: the contents, in order
    sa_context,    \* context after the clean-up, and the branch that set it
    sa_prompt,     \* what the generation step is invoked with
    sa_response    \* content of the message the node returns

support_vars == << sa_pc, sa_messages, sa_context, sa_prompt, sa_response >>

Agents == { "customer_data", "support" }

NoAttempt == [primary |-> "none", fallback |-> "none"]

Init ==
    /\ pc = "idle"
    /\ user_query = None
    /\ classification = None
    /\ classified_by = "none"
    /\ llm_calls = 0
    /\ enhanced_query = None
    /\ callee = "none"
    /\ message = None
    /\ sent = [a \in Agents |-> None]
    /\ calls = [a \in Agents |-> 0]
    /\ posts = [a \in Agents |-> 0]
    /\ processed = [a \in Agents |-> 0]
    /\ attempts = [a \in Agents |-> NoAttempt]
    /\ data_result = None
    /\ analysis = None
    /\ analysed_by = "none"
    /\ support_result = None
    /\ response = None
    /\ raised = None
    /\ served = [endpoint |-> "none"]
    /\ customers = InitialCustomers
    /\ tickets = InitialTickets
    /\ tb_request = [endpoint |-> "none"]
    /\ tb_response = [status |-> 0]
    /\ tb_ops = 0
    /\ da_pc = "idle"
    /\ da_query = None
    /\ da_content = None
    /\ da_tool_calls = <<>>
    /\ da_rounds = <<>>
    /\ da_requests = <<>>
    /\ da_all_results = <<>>
    /\ da_response = None
    /\ g_pc = "start"
    /\ g_messages = <<>>
    /\ g_context = None
    /\ g_next_node = None
    /\ g_response = None
    /\ g_ai_msg = [produced |-> "no"]
    /\ g_visits = <<>>
    /\ sa_pc = "idle"
    /\ sa_messages = <<>>
    /\ sa_context = [source |-> "none"]
    /\ sa_prompt = [invoked |-> FALSE]
    /\ sa_response = None

\* What an agent graph may do when invoked.
GraphOutcomes(agent_id) ==
    { [raises |-> FALSE, content |-> c] : c \in AgentOutputs(agent_id) }
        \cup { [raises |-> TRUE, message |-> m] : m \in AgentErrors }

\* The invoke endpoint of the Router's own server hands the request over.
Receive ==
    /\ pc = "idle"
    /\ \E q \in Queries : user_query' = q
    /\ pc' = "classify"
    /\ UNCHANGED << classification, classified_by, llm_calls, enhanced_query, callee,
                    message, sent, calls, posts, processed, attempts, data_result,
                    analysis, analysed_by, support_result, response, raised >>
    /\ UNCHANGED << server_vars, backend_vars, da_vars, graph_vars, support_vars >>

\* call_a2a_agent(agent_id, msg) is entered.
StartCall(agent_id, msg) ==
    /\ callee' = agent_id
    /\ message' = msg
    /\ sent' = [sent EXCEPT ![agent_id] = msg]
    /\ calls' = [calls EXCEPT ![agent_id] = @ + 1]
    /\ pc' = "primary"

\* router_agent_node up to its first call_a2a_agent: id extraction,
\* classification (or its except branch), annotation, dispatch.
Classify ==
    /\ pc = "classify"
    /\ llm_calls' = llm_calls + 1
    /\ \/ \E content \in ClassifierOutputs :
            /\ classification' = ClassificationOf(content)
            /\ classified_by' = "llm"
       \/ /\ classification' = KeywordFallback(user_query)
          /\ classified_by' = "fallback"
    /\ enhanced_query' = enhanced_query_of(user_query)
    /\ IF Route(classification') \in { "DATA", "COORDINATION" }
       THEN StartCall("customer_data", enhanced_query')
       ELSE StartCall("support", enhanced_query')
    /\ UNCHANGED << user_query, posts, processed, attempts, data_result, analysis,
                    analysed_by, support_result, response, raised >>
    /\ UNCHANGED << server_vars, backend_vars, da_vars, graph_vars, support_vars >>

\* router_agent_node from the return of call_a2a_agent(agent_id, ...) with
\* value result up to its next blocking step.
Returned(agent_id, result) ==
    IF agent_id = "customer_data"
    THEN /\ data_result' = result
         /\ UNCHANGED support_result
         /\ IF Route(classification) = "DATA"
            THEN /\ response' = DataResponse(result)
                 /\ pc' = "done"
                 /\ UNCHANGED << callee, message, sent, calls, analysis, analysed_by >>
            ELSE IF HasErrorMarker(result)
            THEN /\ analysis' = SyntheticAnalysis(result)
                 /\ analysed_by' = "synthetic"
                 /\ StartCall("support", SupportQuery(user_query, result, analysis'))
                 /\ UNCHANGED response
            ELSE /\ pc' = "analyze"
                 /\ UNCHANGED << callee, message, sent, calls, analysis, analysed_by,
                                 response >>
    ELSE /\ support_result' = result
         /\ response' = IF Route(classification) = "COORDINATION"
                        THEN CoordinatedResponse(result)
                        ELSE SupportResponse(result)
         /\ pc' = "done"
         /\ UNCHANGED << data_result, callee, message, sent, calls, analysis,
                         analysed_by >>

\* How one requests.post of request to agent_id's server can end: answered
\* with status 200 and the endpoint's body, or failed with a RequestException
\* (a read timeout comes after the server took the request). invoked tells
\* whether the server reached agent_graph.invoke.
PostEndings(agent_id, request) ==
    { [kind |-> "answered", body |-> invoke_agent(request, o),
       invoked |-> InvokesGraph(request)] : o \in GraphOutcomes(agent_id) }
        \cup
    { [kind |-> "failed", failure |-> f,
       invoked |-> (f = "timeout" /\ InvokesGraph(request))] : f \in TransportFailures }

\* IsRequestException that also takes a JSON-RPC error answer for a failure.
IsRequestException_OrRpcError(ending) ==
    \/ ending.kind = "failed"
    \/ "error" \in DOMAIN ending.body

\* except requests.exceptions.RequestException, around the primary request.
IsRequestException(ending) == ending.kind = "failed"

AttemptLabel(ending) ==
    IF ending.kind = "failed" THEN ending.failure
    ELSE IF "error" \in DOMAIN ending.body THEN "rpc_error"
    ELSE "ok"

\* The primary request of call_a2a_agent: the JSON-RPC envelope.
PrimaryPost ==
    /\ pc = "primary"
    /\ posts' = [posts EXCEPT ![callee] = @ + 1]
    /\ \E ending \in PostEndings(callee, JsonRpcRequest(message)) :
          /\ processed' = [processed EXCEPT ![callee] =
                               IF ending.invoked THEN @ + 1 ELSE @]
          /\ attempts' = [attempts EXCEPT ![callee].primary = AttemptLabel(ending)]
          /\ IF IsRequestException(ending)
             THEN /\ pc' = "fallback"
                  /\ UNCHANGED << callee, message, sent, calls, data_result, analysis,
                                  analysed_by, support_result, response >>
             ELSE Returned(callee, PrimaryReturn(ending.body))
    /\ UNCHANGED << user_query, classification, classified_by, llm_calls,
                    enhanced_query, raised >>
    /\ UNCHANGED << server_vars, backend_vars, da_vars, graph_vars, support_vars >>

\* The except branch of call_a2a_agent: the plain {"query": ...} request,
\* with every exception caught.
FallbackPost ==
    /\ pc = "fallback"
    /\ posts' = [posts EXCEPT ![callee] = @ + 1]
    /\ \E ending \in PostEndings(callee, PlainRequest(message)) :
          /\ processed' = [processed EXCEPT ![callee] =
                               IF ending.invoked THEN @ + 1 ELSE @]
          /\ attempts' = [attempts EXCEPT ![callee].fallback = AttemptLabel(ending)]
          /\ IF ending.kind = "failed"
             THEN Returned(callee, FailedReturn(callee, ending.failure))
             ELSE Returned(callee, FallbackReturn(ending.body))
    /\ UNCHANGED << user_query, classification, classified_by, llm_calls,
                    enhanced_query, raised >>
    /\ UNCHANGED << server_vars, backend_vars, da_vars, graph_vars, support_vars >>

\* The analysis generation step of the COORDINATION branch; it is not inside
\* a try block, so its exception leaves router_agent_node.
Analyze ==
    /\ pc = "analyze"
    /\ llm_calls' = llm_calls + 1
    /\ \/ \E a \in AnalysisOutputs :
            /\ analysis' = a
            /\ analysed_by' = "llm"
            /\ StartCall("support", SupportQuery(user_query, data_result, a))
            /\ UNCHANGED raised
       \/ \E m \in AgentErrors :
            /\ raised' = m
            /\ pc' = "raised"
            /\ UNCHANGED << callee, message, sent, calls, analysis, analysed_by >>
    /\ UNCHANGED << user_query, classification, classified_by, enhanced_query, posts,
                    processed, attempts, data_result, support_result, response >>
    /\ UNCHANGED << server_vars, backend_vars, da_vars, graph_vars, support_vars >>

Next == Receive \/ Classify \/ PrimaryPost \/ FallbackPost \/ Analyze

Spec == Init /\ [][Next]_vars

\* A request in flight ends: both requests.post calls carry timeout=30.
FairSpec == Spec /\ WF_vars(PrimaryPost) /\ WF_vars(FallbackPost)

(***************************************************************************)
(* An agent server answering requests of any client.                       *)
(***************************************************************************)
\* The ids a client may put in a request.
RequestIds == { Num(7), Text(<<"r","e","q","-","a">>), Null }  \* "req-a"

\* The message lists a client may put in an invoke request.
RequestMessages ==
    { <<>>, << [role |-> "user", content |-> <<>>] >>, << [role |-> "user", content |-> <<" ">>] >> }  \* " "
        \cup { << [role |-> "user", content |-> q] >> : q \in { <<"I","D","1","2">>, <<"c","h","a","r","g","e","d">> } }  \* "ID12", "charged"
        \cup { << [role |-> "assistant", content |-> <<"D","a","t","a"," ","A","g","e","n","t"," ","R","e","s","u","l","t",":"," ","x">>],  \* "Data Agent Result: x"
                  [role |-> "user", content |-> <<"I","D","1","2">>] >> }  \* "ID12"

\* A request with and without its id.
WithIds(request) == { request } \cup { [id |-> i] @@ request : i \in RequestIds }

ServerRequests ==
    UNION { WithIds([jsonrpc |-> "2.0", method |-> "invoke", params |-> [messages |-> m]])
              : m \in RequestMessages }
      \cup UNION { WithIds([jsonrpc |-> "2.0", method |-> "message/send",
                            params |-> [message |-> [parts |-> p]]])
                     : p \in { <<>>, << [kind |-> "text", text |-> <<"I","D","1","2">>] >> } }  \* "ID12"
      \cup UNION { WithIds(r) : r \in { [query |-> <<"I","D","1","2">>], [message |-> <<"c","h","a","r","g","e","d">>],  \* "ID12", "charged"
                                        [query |-> <<>>] } }

\* POST /a2a/{agent_id} of a server made by create_a2a_server.
InvokeAgent ==
    /\ \E agent_id \in Agents, request \in ServerRequests :
         \E outcome \in GraphOutcomes(agent_id) :
            served' = [endpoint |-> "a2a_agents", agent_id |-> agent_id, request |-> request,
                       invoked |-> InvokesGraph(request),
                       raised |-> (InvokesGraph(request) /\ outcome.raises),
                       response |-> invoke_agent(request, outcome)]
    /\ UNCHANGED << vars, backend_vars, da_vars, graph_vars, support_vars >>

\* POST /a2a/{agent_id} of a server made by start_agents.py.
StartAgentsInvokeAgent ==
    /\ \E agent_id \in Agents, request \in ServerRequests :
         \E outcome \in GraphOutcomes(agent_id) :
            served' = [endpoint |-> "start_agents", agent_id |-> agent_id, request |-> request,
                       invoked |-> StartAgentsInvokesGraph(request),
                       raised |-> (StartAgentsInvokesGraph(request) /\ outcome.raises),
                       response |-> start_agents_invoke_agent(request, outcome)]
    /\ UNCHANGED << vars, backend_vars, da_vars, graph_vars, support_vars >>

ServerNext == InvokeAgent \/ StartAgentsInvokeAgent

ServerSpec == Init /\ [][ServerNext]_server_vars

(***************************************************************************)
(* The Tool Backend answering operations of any client.                    *)
(***************************************************************************)
\* A mapping with key or without it.
Optional(key, values) == { <<>> } \cup { key :> v : v \in values }

\* The customer_id values a client may send: no customer has the ids 0 and 9.
CustomerIdArgs == { Num(0), Num(1), Num(9) }

\* The patches a client may send with update_customer.
Patches ==
    { <<>>,
      "phone" :> Null,
      "name" :> Text(<<"B","o","b">>),  \* "Bob"
      ("name" :> Text(<<"B","o","b">>)) @@ ("phone" :> Null),  \* "Bob"
      ("email" :> Text(<<"b","o","b","@","x",".","i","o">>)) @@ ("status" :> Text(<<"d","i","s","a","b","l","e","d">>)),  \* "bob@x.io", "disabled"
      "nickname" :> Text(<<"B">>),  \* "B"
      "id" :> Num(7),
      "id" :> Num(5) }

ToolRequests ==
    { [name |-> Text(<<"g","e","t","_","c","u","s","t","o","m","e","r">>), arguments |-> a]  \* "get_customer"
        : a \in Optional("customer_id", CustomerIdArgs \cup { Num(5), Null }) }
      \cup
    { [name |-> Text(<<"l","i","s","t","_","c","u","s","t","o","m","e","r","s">>), arguments |-> a @@ b]  \* "list_customers"
        : a \in Optional("status", { Text(<<"a","c","t","i","v","e">>) }),  \* "active"
          b \in Optional("limit", { Num(1), Null }) }
      \cup
    { [name |-> Text(<<"u","p","d","a","t","e","_","c","u","s","t","o","m","e","r">>), arguments |-> a @@ p]  \* "update_customer"
        : a \in Optional("customer_id", CustomerIdArgs), p \in Patches }
      \cup
    { [name |-> Text(<<"c","r","e","a","t","e","_","t","i","c","k","e","t">>), arguments |-> a @@ b @@ c]  \* "create_ticket"
        : a \in Optional("customer_id", CustomerIdArgs),
          b \in Optional("issue", { Text(<<>>), Text(<<"l","a","t","e"," ","d","e","l","i","v","e","r","y">>) }),  \* "late delivery"
          c \in Optional("priority", { Text(<<"l","o","w">>), Text(<<"h","i","g","h">>), Text(<<"u","r","g","e","n","t">>) }) }  \* "low", "high", "urgent"
      \cup
    { [name |-> Text(<<"g","e","t","_","c","u","s","t","o","m","e","r","_","h","i","s","t","o","r","y">>), arguments |-> a]  \* "get_customer_history"
        : a \in Optional("customer_id", CustomerIdArgs) }
      \cup
    { [name |-> Text(<<"d","e","l","e","t","e","_","c","u","s","t","o","m","e","r">>), arguments |-> "customer_id" :> Num(1)],  \* "delete_customer"
      [arguments |-> "customer_id" :> Num(1)],
      [name |-> Text(<<"g","e","t","_","c","u","s","t","o","m","e","r">>)] }  \* "get_customer"

\* The store as an operation finds it.
Store == [customers |-> customers, tickets |-> tickets]

\* The operation answered with done.response and left the store done.store.
Answered(request, done) ==
    /\ tb_request' = request
    /\ tb_response' = done.response
    /\ customers' = done.store.customers
    /\ tickets' = done.store.tickets
    /\ tb_ops' = tb_ops + 1

\* POST /mcp/call_tool
CallTool ==
    /\ tb_ops < MaxOps
    /\ \E request \in ToolRequests :
          Answered([endpoint |-> "call_tool", request |-> request],
                   call_tool(request, Store))
    /\ UNCHANGED << vars, server_vars, da_vars, graph_vars, support_vars >>

\* PUT /mcp/update_customer/{customer_id}
UpdateCustomerRest ==
    /\ tb_ops < MaxOps
    /\ \E customer_id \in CustomerIdArgs, data \in Patches :
          Answered([endpoint |-> "update_customer_rest", customer_id |-> customer_id,
                    data |-> data],
                   update_customer_rest(customer_id, data, Store))
    /\ UNCHANGED << vars, server_vars, da_vars, graph_vars, support_vars >>

\* server.py, tool get_customer
ServerGetCustomer ==
    /\ tb_ops < MaxOps
    /\ \E customer_id \in CustomerIdArgs :
          Answered([endpoint |-> "server.get_customer", customer_id |-> customer_id],
                   server_get_customer(customer_id, Store))
    /\ UNCHANGED << vars, server_vars, da_vars, graph_vars, support_vars >>

\* server.py, tool update_customer
ServerUpdateCustomer ==
    /\ tb_ops < MaxOps
    /\ \E customer_id \in CustomerIdArgs,
          data \in { [decoded |-> FALSE] } \cup { [decoded |-> TRUE, value |-> p] : p \in Patches } :
          Answered([endpoint |-> "server.update_customer", customer_id |-> customer_id,
                    data |-> data],
                   server_update_customer(customer_id, data, Store))
    /\ UNCHANGED << vars, server_vars, da_vars, graph_vars, support_vars >>

\* server.py, tool create_ticket (priority is "medium" when the caller leaves it out)
ServerCreateTicket ==
    /\ tb_ops < MaxOps
    /\ \E customer_id \in CustomerIdArgs, issue \in { Text(<<>>), Text(<<"l","a","t","e"," ","d","e","l","i","v","e","r","y">>) },  \* "late delivery"
          args \in Optional("priority", { Text(<<"l","o","w">>), Text(<<"u","r","g","e","n","t">>) }) :  \* "low", "urgent"
          Answered([endpoint |-> "server.create_ticket", customer_id |-> customer_id,
                    issue |-> issue, arguments |-> args],
                   server_create_ticket(customer_id, issue,
                       IF "priority" \in DOMAIN args THEN args["priority"]
                       ELSE Text(<<"m","e","d","i","u","m">>),  \* "medium"
                       Store))
    /\ UNCHANGED << vars, server_vars, da_vars, graph_vars, support_vars >>

BackendNext ==
    CallTool \/ UpdateCustomerRest \/ ServerGetCustomer \/ ServerUpdateCustomer
        \/ ServerCreateTicket

BackendSpec == Init /\ [][BackendNext]_backend_vars

(***************************************************************************)
(* The Data Agent handling one request: customer_data_agent_node against   *)
(* the Tool Backend's store.                                               *)
(***************************************************************************)
\* The query texts the Data Agent may be given.
DataQueries ==
    { <<"s","h","o","w"," ","m","e"," ","c","u","s","t","o","m","e","r"," ","5">>,  \* "show me customer 5"
      <<"G","e","t"," ","c","u","s","t","o","m","e","r"," ","i","n","f","o","r","m","a","t","i","o","n"," ","f","o","r"," ","I","D"," ","1">>,  \* "Get customer information for ID 1"
      <<"I","'","m"," ","c","u","s","t","o","m","e","r"," ","1","2","3","4","5"," ","a","n","d"," ","n","e","e","d"," ","h","e","l","p"," ","u","p","g","r","a","d","i","n","g"," ","m","y"," ","a","c","c","o","u","n","t">>,  \* "I'm customer 12345 and need help upgrading my account"
      <<"u","p","d","a","t","e"," ","m","y"," ","e","m","a","i","l"," ","t","o"," ","n","e","w","@","x",".","i","o"," ","a","n","d"," ","s","h","o","w"," ","m","y"," ","t","i","c","k","e","t"," ","h","i","s","t","o","r","y">>,  \* "update my email to new@x.io and show my ticket history"
      <<"s","h","o","w"," ","m","y"," ","t","i","c","k","e","t","s">>,  \* "show my tickets"
      <<"s","h","o","w"," ","a","c","t","i","v","e"," ","c","u","s","t","o","m","e","r","s"," ","w","i","t","h"," ","o","p","e","n"," ","t","i","c","k","e","t","s">>,  \* "show active customers with open tickets"
      <<"w","h","a","t"," ","a","r","e"," ","y","o","u","r"," ","h","o","u","r","s">> }  \* "what are your hours"

ToolCall(name, args) == [name |-> name, args |-> args]

\* The tool calls the generation step may emit.
ToolCalls ==
    { ToolCall(<<"g","e","t","_","c","u","s","t","o","m","e","r">>, "__arg1" :> Text(<<"1","2","3","4","5">>)),  \* "get_customer", "12345"
      ToolCall(<<"g","e","t","_","c","u","s","t","o","m","e","r">>, "__arg1" :> Text(<< "U+00B2" >>)),  \* "get_customer"
      ToolCall(<<"g","e","t","_","c","u","s","t","o","m","e","r">>, "customer_id" :> Num(1)),  \* "get_customer"
      ToolCall(<<"g","e","t","_","c","u","s","t","o","m","e","r">>, "customer_id" :> Num(0)),  \* "get_customer"
      ToolCall(<<"g","e","t","_","c","u","s","t","o","m","e","r">>, "customer_id" :> Text(<<"a","b","c">>)),  \* "get_customer", "abc"
      ToolCall(<<"u","p","d","a","t","e","_","c","u","s","t","o","m","e","r">>, "email" :> Text(<<"n","e","w","@","x",".","i","o">>)),  \* "update_customer", "new@x.io"
      ToolCall(<<"u","p","d","a","t","e","_","c","u","s","t","o","m","e","r">>, ("customer_id" :> Num(1)) @@ ("status" :> Text(<<"d","i","s","a","b","l","e","d">>))),  \* "update_customer", "disabled"
      ToolCall(<<"u","p","d","a","t","e","_","c","u","s","t","o","m","e","r">>, "__arg1" :> Text(<<"{","'","e","m","a","i","l","'",":"," ","'","a","@","b",".","c","'","}">>)),  \* "update_customer", "{'email': 'a@b.c'}"
      ToolCall(<<"g","e","t","_","c","u","s","t","o","m","e","r","_","h","i","s","t","o","r","y">>, <<>>),  \* "get_customer_history"
      ToolCall(<<"l","i","s","t","_","c","u","s","t","o","m","e","r","s">>, <<>>),  \* "list_customers"
      ToolCall(<<"c","r","e","a","t","e","_","t","i","c","k","e","t">>,  \* "create_ticket"
               ("customer_id" :> Num(1)) @@ ("issue" :> Text(<<"r","e","f","u","n","d">>))  \* "refund"
                   @@ ("priority" :> Text(<<"h","i","g","h">>))),  \* "high"
      ToolCall(<<"d","e","l","e","t","e","_","c","u","s","t","o","m","e","r">>, "customer_id" :> Num(1)) }  \* "delete_customer"

\* ai_msg.content of a message without tool calls; a message with tool calls
\* carries the empty text.
ChatTexts == { <<>>, <<"C","u","s","t","o","m","e","r"," ","5"," ","i","s"," ","E","v","e",","," ","I"," ","b","e","l","i","e","v","e",".">> }  \* "Customer 5 is Eve, I believe."

\* ai_msg.tool_calls
ToolCallLists == UNION { [1..n -> ToolCalls] : n \in 0..MaxToolCalls }

\* How the get_customer_history requests of a follow-up may go.
HistoryTransports ==
    { [i \in 1..Len(customers) |-> IF i \in refused THEN "refused" ELSE "answered"]
        : refused \in { {}, { 1 }, 1..Len(customers) } }

AllAnswered == [i \in 1..Len(customers) |-> "answered"]

\* The agent server hands the last message of the request to the node.
DataAgentReceive ==
    /\ da_pc = "idle"
    /\ \E q \in DataQueries : da_query' = q
    /\ da_pc' = "generate"
    /\ UNCHANGED << da_content, da_tool_calls, da_rounds, da_requests, da_all_results,
                    da_response >>
    /\ UNCHANGED << customers, tickets >>
    /\ UNCHANGED << vars, server_vars, tb_request, tb_response, tb_ops, graph_vars, support_vars >>

\* llm_with_tools.invoke(enhanced_query) returns a message with tool calls,
\* or raises into the outer except.
DataAgentGenerate ==
    /\ da_pc = "generate"
    /\ \/ \E e \in AgentErrors :
            /\ da_response' = DataAgentError(e)
            /\ da_pc' = "done"
            /\ UNCHANGED << da_content, da_tool_calls >>
       \/ \E tool_calls \in ToolCallLists :
         \E content \in (IF Len(tool_calls) = 0 THEN ChatTexts ELSE { <<>> }) :
            /\ da_content' = content
            /\ da_tool_calls' = tool_calls
            /\ da_pc' = IF Len(tool_calls) = 0 THEN "rules" ELSE "tools"
            /\ UNCHANGED da_response
    /\ UNCHANGED << da_query, da_rounds, da_requests, da_all_results >>
    /\ UNCHANGED << customers, tickets >>
    /\ UNCHANGED << vars, server_vars, tb_request, tb_response, tb_ops, graph_vars, support_vars >>

\* The node after a round of the loop over the tool calls: an exception of the
\* normalization ends it in the outer except, and after the last tool call it
\* returns its result.
AfterRound(round) ==
    IF round.raises
    THEN /\ da_response' = DataAgentError(round.message)
         /\ da_pc' = "done"
         /\ UNCHANGED << da_tool_calls, da_rounds, da_requests, da_all_results,
                         customers, tickets >>
    ELSE /\ da_tool_calls' = Tail(da_tool_calls)
         /\ da_rounds' = Append(da_rounds,
                                [call |-> Head(da_tool_calls),
                                 tool_name |-> round.tool_name,
                                 tool_args |-> round.tool_args,
                                 requests |-> round.requests,
                                 fragments |-> round.fragments])
         /\ da_requests' = da_requests \o round.requests
         /\ da_all_results' = da_all_results \o round.fragments
         /\ customers' = round.store.customers
         /\ tickets' = round.store.tickets
         /\ IF Len(da_tool_calls) = 1
            THEN /\ da_response' = DataAgentResult(da_all_results')
                 /\ da_pc' = "done"
            ELSE UNCHANGED << da_response, da_pc >>

\* One round of the loop over the tool calls.
DataAgentToolCall ==
    /\ da_pc = "tools"
    /\ \E transport \in McpTransports :
       \E history_transports \in
              (IF Head(da_tool_calls).name = <<"l","i","s","t","_","c","u","s","t","o","m","e","r","s">>  \* "list_customers"
                     /\ AsksForOpenTickets(da_query)
               THEN HistoryTransports ELSE { AllAnswered }) :
          AfterRound(run_tool_call(Head(da_tool_calls), da_query, Store, transport,
                                   history_transports))
    /\ UNCHANGED << da_query, da_content >>
    /\ UNCHANGED << vars, server_vars, tb_request, tb_response, tb_ops, graph_vars, support_vars >>

\* The node after the rule pass: it returns its result.
AfterPass(pass) ==
    /\ da_requests' = da_requests \o pass.requests
    /\ da_all_results' = da_all_results \o pass.fragments
    /\ customers' = pass.store.customers
    /\ tickets' = pass.store.tickets
    /\ da_response' = DataAgentResult(da_all_results')
    /\ da_pc' = "done"

\* The generation step emitted no tool call: the rule pass runs.
DataAgentRulePass ==
    /\ da_pc = "rules"
    /\ \E transport \in McpTransports :
       \E history_transports \in HistoryTransports :
          AfterPass(rule_pass(da_query, Store, transport, history_transports))
    /\ UNCHANGED << da_query, da_content, da_tool_calls, da_rounds >>
    /\ UNCHANGED << vars, server_vars, tb_request, tb_response, tb_ops, graph_vars, support_vars >>

DataAgentNext ==
    DataAgentReceive \/ DataAgentGenerate \/ DataAgentToolCall \/ DataAgentRulePass

DataAgentSpec == Init /\ [][DataAgentNext]_data_agent_vars

(***************************************************************************)
(* The single-process graph of agents.py: router_node, then                *)
(* customer_data_agent_node or not, then support_agent_node.  The tools of *)
(* this file call the REST endpoints of a Tool Backend at MCP_URL; what    *)
(* that server answers is an input here.                                   *)
(***************************************************************************)
MCP_URL == <<"h","t","t","p","s",":","/","/","h","o","m","o","p","o","l","a","r","-","s","a","l","l","y","-","c","h","i","l","d","l","i","k","e",".","n","g","r","o","k","-","f","r","e","e",".","d","e","v","/","m","c","p">>  \* "https://homopolar-sally-childlike.ngrok-free.dev/mcp"

\* What one HTTP request of a tool may meet: an answer with a JSON body, an
\* answer with an error status, or no connection.
GraphHttpOutcomes ==
    { [status |-> 200, json |-> Dict(<< << <<"i","d">>, Num(5) >> >>)],  \* "id"
      [status |-> 404, text |-> <<"{","\"","d","e","t","a","i","l","\"",":","\"","C","u","s","t","o","m","e","r"," ","n","o","t"," ","f","o","u","n","d","\"","}">>],  \* "{\"detail\":\"Customer not found\"}"
      [status |-> 0, error |-> <<"c","o","n","n","e","c","t","i","o","n"," ","r","e","f","u","s","e","d">>] }  \* "connection refused"

\* call_mcp_tool of agents.py, from the outcome of its request.
graph_call_mcp_tool(http) ==
    IF http.status = 200 THEN dumps(http.json, 0)
    ELSE IF http.status = 0
    THEN <<"E","R","R","O","R",":"," ","F","a","i","l","e","d"," ","t","o"," ","c","o","n","n","e","c","t"," ","t","o"," ","M","C","P"," ","s","e","r","v","e","r"," ","a","t"," ">> \o MCP_URL  \* "ERROR: Failed to connect to MCP server at "
             \o <<"."," ","I","s"," ","i","t"," ","r","u","n","n","i","n","g","?"," ">> \o http.error  \* ". Is it running? "
    ELSE <<"E","R","R","O","R",":"," ","M","C","P"," ","c","a","l","l"," ","f","a","i","l","e","d"," ","(","S","t","a","t","u","s"," ">> \o str_int(http.status)  \* "ERROR: MCP call failed (Status "
             \o <<")","."," ","D","e","t","a","i","l","s",":"," ">> \o http.text  \* "). Details: "

\* selected_tool.invoke(tool_args): the tool returns what call_mcp_tool
\* returns, or refuses its arguments with an exception.
GraphToolOutcomes ==
    { [raises |-> FALSE, output |-> graph_call_mcp_tool(http)] : http \in GraphHttpOutcomes }
        \cup { [raises |-> TRUE, message |-> <<"1"," ","v","a","l","i","d","a","t","i","o","n"," ","e","r","r","o","r"," ","f","o","r"," ","G","e","t","C","u","s","t","o","m","e","r","A","r","g","s">>] }  \* "1 validation error for GetCustomerArgs"

\* The tool calls the generation step of the graph's data node may emit.
GraphToolCalls ==
    { ToolCall(<<"g","e","t","_","c","u","s","t","o","m","e","r">>, "customer_id" :> Num(5)),  \* "get_customer"
      ToolCall(<<"l","i","s","t","_","c","u","s","t","o","m","e","r","s">>, "status" :> Text(<<"a","c","t","i","v","e">>)),  \* "list_customers", "active"
      ToolCall(<<"d","e","l","e","t","e","_","c","u","s","t","o","m","e","r">>, "customer_id" :> Num(5)) }  \* "delete_customer"

GraphToolCallLists == UNION { [1..n -> GraphToolCalls] : n \in 0..MaxToolCalls }

\* The loop over ai_msg.tool_calls: data_result after the tool calls from
\* the i-th on, outcomes[k] being what invoking the k-th would give.
RECURSIVE graph_tool_loop(_, _, _, _)
graph_tool_loop(tool_calls, outcomes, i, result) ==
    IF i > Len(tool_calls) THEN result
    ELSE IF tool_calls[i].name \notin DataAgentTools
    THEN graph_tool_loop(tool_calls, outcomes, i + 1, result)
    ELSE IF outcomes[i].raises
    THEN graph_tool_loop(tool_calls, outcomes, i + 1,
                         <<"E","r","r","o","r"," ","e","x","e","c","u","t","i","n","g"," ","t","o","o","l",":"," ">> \o outcomes[i].message)  \* "Error executing tool: "
    ELSE outcomes[i].output

\* data_result of customer_data_agent_node of agents.py.
graph_data_result(ai_msg, outcomes) ==
    IF Len(ai_msg.tool_calls) > 0
    THEN graph_tool_loop(ai_msg.tool_calls, outcomes, 1, <<"N","o"," ","d","a","t","a"," ","f","o","u","n","d",".">>)  \* "No data found."
    ELSE <<"N","O","T","E",":"," ","A","g","e","n","t"," ","d","i","d"," ","n","o","t"," ","u","s","e"," ","a"," ","t","o","o","l","."," ","R","e","s","p","o","n","s","e",":"," ">> \o ai_msg.content  \* "NOTE: Agent did not use a tool. Response: "

\* graph_destination that sends only the label DATA to the data node.
graph_destination_DataOnly(label) ==
    IF label = <<"D","A","T","A">> THEN "customer_data_agent_node" ELSE "support_agent_node"  \* "DATA"

\* router_node: the destination for a label.
graph_destination(label) ==
    IF label \in { <<"D","A","T","A">>, <<"C","O","O","R","D","I","N","A","T","I","O","N">> }  \* "DATA", "COORDINATION"
    THEN "customer_data_agent_node" ELSE "support_agent_node"

\* The graph is invoked with a state whose messages hold the query.
GraphInvoke ==
    /\ g_pc = "start"
    /\ \E q \in DataQueries : g_messages' = << q >>
    /\ \E context \in { None, <<>> } : g_context' = context
    /\ g_pc' = "router_node"
    /\ UNCHANGED << g_next_node, g_response, g_ai_msg, g_visits >>
    /\ UNCHANGED << vars, server_vars, backend_vars, da_vars, support_vars >>

\* router_node, and the conditional edge that follows it.
RouterNode ==
    /\ g_pc = "router_node"
    /\ \/ \E content \in ClassifierOutputs : g_response' = upper(strip(content))
       \/ g_response' = <<"S","U","P","P","O","R","T">>  \* "SUPPORT"
    /\ g_next_node' = graph_destination(g_response')
    /\ g_pc' = g_next_node'
    /\ g_visits' = Append(g_visits, "router_node")
    /\ UNCHANGED << g_messages, g_context, g_ai_msg >>
    /\ UNCHANGED << vars, server_vars, backend_vars, da_vars, support_vars >>

\* customer_data_agent_node of agents.py, and the edge to support_agent_node.
GraphDataNode ==
    /\ g_pc = "customer_data_agent_node"
    /\ \/ /\ g_ai_msg' = [produced |-> "raised"]
          /\ g_messages' = Append(g_messages, <<"E","r","r","o","r"," ","p","r","o","c","e","s","s","i","n","g"," ","d","a","t","a"," ","r","e","q","u","e","s","t",".">>)  \* "Error processing data request."
          /\ g_context' = <<"E","r","r","o","r">>  \* "Error"
       \/ \E tool_calls \in GraphToolCallLists :
          \E content \in (IF Len(tool_calls) = 0 THEN ChatTexts ELSE { <<>> }) :
          \E outcomes \in [1..Len(tool_calls) -> GraphToolOutcomes] :
             /\ g_ai_msg' = [produced |-> "yes", content |-> content,
                             tool_calls |-> tool_calls]
             /\ g_context' = graph_data_result(g_ai_msg', outcomes)
             /\ g_messages' = Append(g_messages, <<"D","a","t","a"," ","f","e","t","c","h","e","d",":"," ">> \o g_context')  \* "Data fetched: "
    /\ g_next_node' = "support_agent_node"
    /\ g_pc' = "support_agent_node"
    /\ g_visits' = Append(g_visits, "customer_data_agent_node")
    /\ UNCHANGED g_response
    /\ UNCHANGED << vars, server_vars, backend_vars, da_vars, support_vars >>

\* support_agent_node of agents.py, and the edge to END.  Reading
\* state['context'] raises when the key was never set, and the generation
\* step may raise: the run then ends with that exception.
GraphSupportNode ==
    /\ g_pc = "support_agent_node"
    /\ g_visits' = Append(g_visits, "support_agent_node")
    /\ \/ /\ g_context # None
          /\ \E final_answer \in AgentOutputs("support") :
                g_messages' = Append(g_messages, final_answer)
          /\ g_next_node' = "end"
          /\ g_pc' = "end"
       \/ /\ g_pc' = "raised"
          /\ UNCHANGED << g_messages, g_next_node >>
    /\ UNCHANGED << g_context, g_response, g_ai_msg >>
    /\ UNCHANGED << vars, server_vars, backend_vars, da_vars, support_vars >>

GraphNext == GraphInvoke \/ RouterNode \/ GraphDataNode \/ GraphSupportNode

GraphSpec == Init /\ [][GraphNext]_graph_vars

\* app.invoke runs the nodes one after the other until the graph ends: a
\* node that can run does run.
GraphFairSpec ==
    GraphSpec /\ WF_graph_vars(RouterNode) /\ WF_graph_vars(GraphDataNode)
        /\ WF_graph_vars(GraphSupportNode)

(***************************************************************************)
(* The Support Agent handling one request: support_agent_node of           *)
(* a2a_agents.py behind its agent server.                                  *)
(***************************************************************************)
\* s.find(sub) + 1: the first place of sub in s, 0 when there is none.
find(sub, s) ==
    IF ~Contains(sub, s) THEN 0
    ELSE CHOOSE i \in 1..Len(s) : HasAt(s, i, sub) /\ \A j \in 1..(i - 1) : ~HasAt(s, j, sub)

\* s.split(sub, 1)[1], for sub in s
after_first(s, sub) == SubSeq(s, find(sub, s) + Len(sub), Len(s))

\* s.split(sub)[0]
before_first(s, sub) == IF Contains(sub, s) THEN SubSeq(s, 1, find(sub, s) - 1) ELSE s

\* s.split(sub)[1], for sub in s
second_part(s, sub) == before_first(after_first(s, sub), sub)

\* s.split(sub)[-1]
RECURSIVE after_last(_, _)
after_last(s, sub) == IF Contains(sub, s) THEN after_last(after_first(s, sub), sub) ELSE s

DataResultMarker == <<"D","a","t","a"," ","A","g","e","n","t"," ","R","e","s","u","l","t",":">>  \* "Data Agent Result:"

ToolKeywords ==
    { <<"g","e","t","_","c","u","s","t","o","m","e","r",":">>, <<"u","p","d","a","t","e","_","c","u","s","t","o","m","e","r",":">>, <<"l","i","s","t","_","c","u","s","t","o","m","e","r","s",":">>, <<"g","e","t","_","c","u","s","t","o","m","e","r","_","h","i","s","t","o","r","y",":">> }  \* "get_customer:", "update_customer:", "list_customers:", "get_customer_history:"

\* Lines 616-622: what one earlier message adds to data_agent_results.
data_part_of(content) ==
    IF Contains(DataResultMarker, content)
    THEN << strip(after_first(content, DataResultMarker)) >>
    ELSE IF \E keyword \in ToolKeywords : Contains(keyword, content) THEN << content >>
    ELSE <<>>

\* Lines 614-622: the loop over state['messages'][:-1], first message first.
RECURSIVE data_agent_results_of(_)
data_agent_results_of(earlier) ==
    IF Len(earlier) = 0 THEN <<>>
    ELSE data_part_of(Head(earlier)) \o data_agent_results_of(Tail(earlier))

\* The place where the line of s holding place p begins.
LineStart(s, p) ==
    CHOOSE k \in 1..p : /\ k = 1 \/ s[k - 1] = "\n"
                        /\ \A m \in k..(p - 1) : s[m] # "\n"

\* Lines 630-637: the text after the first colon of the first line that
\* holds "Data Agent Result:" or "Data context:", to the end of the query.
context_line_of(query) ==
    LET Holds(i) == HasAt(query, i, DataResultMarker)
                       \/ HasAt(query, i, <<"D","a","t","a"," ","c","o","n","t","e","x","t",":">>)  \* "Data context:"
    IN  IF ~\E i \in 1..Len(query) : Holds(i) THEN <<>>
        ELSE strip(after_first(
                 SubSeq(query,
                        LineStart(query,
                                  CHOOSE i \in 1..Len(query) :
                                      Holds(i) /\ \A j \in 1..(i - 1) : ~Holds(j)),
                        Len(query)),
                 <<":">>))

\* Lines 625-637: the context the query itself carries.
query_context(query) ==
    IF Contains(DataResultMarker, query)
    THEN strip(second_part(query, DataResultMarker))
    ELSE IF Contains(<<"O","r","i","g","i","n","a","l"," ","q","u","e","r","y",":">>, query) THEN context_line_of(query)  \* "Original query:"
    ELSE <<>>

\* re.search(r'(\{.*\}|\[.*\])', s, re.DOTALL): from the first brace or
\* bracket that has its closing character after it, to the last such
\* closing character; None when there is none.
json_match(s) ==
    LET Closing(i) == IF s[i] = "{" THEN "}" ELSE "]"
        Opens(i) == /\ s[i] \in { "{", "[" }
                    /\ \E j \in (i + 1)..Len(s) : s[j] = Closing(i)
    IN  IF ~\E i \in 1..Len(s) : Opens(i) THEN None
        ELSE LET i == CHOOSE i \in 1..Len(s) : Opens(i) /\ \A k \in 1..(i - 1) : ~Opens(k)
             IN  SubSeq(s, i, CHOOSE j \in (i + 1)..Len(s) :
                                  /\ s[j] = Closing(i)
                                  /\ \A m \in (j + 1)..Len(s) : s[m] # Closing(i))

\* re.sub(r'Data Agent Result:\s*', '', context, flags=re.IGNORECASE)
RECURSIVE remove_markers(_)
remove_markers(context) ==
    IF Len(context) = 0 THEN <<>>
    ELSE IF HasAt(lower(context), 1, lower(DataResultMarker))
    THEN remove_markers(SubSeq(context,
                               SkipChars(context, Len(DataResultMarker) + 1, SpaceChars),
                               Len(context)))
    ELSE << Head(context) >> \o remove_markers(Tail(context))

\* Lines 652-656
clean_up(context) == IF Len(context) = 0 THEN context ELSE strip(remove_markers(context))

\* Lines 609-656: the context, and the branch that set it.
context_of(messages) ==
    LET query == IF Len(messages) > 0 THEN messages[Len(messages)] ELSE <<>>
        data_agent_results ==
            IF Len(messages) > 1
            THEN data_agent_results_of(SubSeq(messages, 1, Len(messages) - 1))
            ELSE <<>>
    IN  IF Len(data_agent_results) > 0
        THEN [source |-> "messages",
              text |-> clean_up(JoinWith(<<"\n">>, data_agent_results))]
        ELSE IF Len(query_context(query)) > 0
        THEN [source |-> "query", text |-> clean_up(query_context(query))]
        ELSE IF json_match(query) # None
        THEN [source |-> "json", text |-> clean_up(json_match(query))]
        ELSE [source |-> "nothing", text |-> <<>>]

\* Lines 691-696
original_query_of(query) ==
    IF Contains(<<"C","u","s","t","o","m","e","r"," ","Q","u","e","r","y",":">>, query)  \* "Customer Query:"
    THEN strip(before_first(after_last(query, <<"C","u","s","t","o","m","e","r"," ","Q","u","e","r","y",":">>), <<"\n">>))  \* "Customer Query:"
    ELSE IF Contains(<<"O","r","i","g","i","n","a","l"," ","q","u","e","r","y",":">>, query)  \* "Original query:"
    THEN strip(before_first(after_last(query, <<"O","r","i","g","i","n","a","l"," ","q","u","e","r","y",":">>), <<"\n">>))  \* "Original query:"
    ELSE query

NoCustomerData ==
    <<"N","o"," ","c","u","s","t","o","m","e","r"," ","d","a","t","a"," ","a","v","a","i","l","a","b","l","e","."," ","A","s","k"," ","t","h","e"," ","c","u","s","t","o","m","e","r"," ","f","o","r"," ","t","h","e","i","r"," ","c","u","s","t","o","m","e","r"," ","I","D"," ","t","o"," ","r","e","t","r","i","e","v","e"," ","t","h","e","i","r"," ","i","n","f","o","r","m","a","t","i","o","n",".">>  \* "No customer data available. Ask the customer for their customer ID to retrieve their information."

\* Lines 698-701: what response_chain.invoke is given.
prompt_of(query, context) ==
    [invoked |-> TRUE,
     query |-> original_query_of(query),
     context |-> IF Len(context) > 0 THEN context ELSE NoCustomerData]

\* The contents of the messages before the last one of a request.
EarlierContents ==
    { <<"D","a","t","a"," ","A","g","e","n","t"," ","R","e","s","u","l","t",":"," ","g","e","t","_","c","u","s","t","o","m","e","r",":"," ","o","l","d">>,  \* "Data Agent Result: get_customer: old"
      <<"D","a","t","a"," ","A","g","e","n","t"," ","R","e","s","u","l","t",":"," "," ","n","e","w","\n">>,  \* "Data Agent Result:  new\n"
      <<"g","e","t","_","c","u","s","t","o","m","e","r","_","h","i","s","t","o","r","y",":"," ","[","]">>,  \* "get_customer_history: []"
      <<"h","e","l","l","o">> }  \* "hello"

\* The contents of the last message of a request.
SupportQueries ==
    { <<"I"," ","n","e","e","d"," ","a"," ","r","e","f","u","n","d">>,  \* "I need a refund"
      <<"m","y"," ","d","a","t","a"," ","i","s"," ","{","\"","i","d","\"",":"," ","9","}"," ","o","k">>,  \* "my data is {\"id\": 9} ok"
      <<"O","r","i","g","i","n","a","l"," ","q","u","e","r","y",":"," ","r","e","f","u","n","d","\n","D","a","t","a"," ","c","o","n","t","e","x","t",":"," ","[","1","]">>,  \* "Original query: refund\nData context: [1]"
      SupportQuery(<<"r","e","f","u","n","d">>, <<"g","e","t","_","c","u","s","t","o","m","e","r",":"," ","{","\"","i","d","\"",":"," ","5","}">>, <<"b","i","l","l","i","n","g">>) }  \* "refund", "get_customer: {\"id\": 5}", "billing"

MaxEarlier == 2

SupportHistories ==
    { earlier \o << q >> :
        earlier \in UNION { [1..n -> EarlierContents] : n \in 0..MaxEarlier },
        q \in SupportQueries }

\* The agent server hands the messages of the request to the graph.
SupportReceive ==
    /\ sa_pc = "idle"
    /\ \E messages \in SupportHistories : sa_messages' = messages
    /\ sa_pc' = "agent"
    /\ UNCHANGED << sa_context, sa_prompt, sa_response >>
    /\ UNCHANGED << vars, server_vars, backend_vars, da_vars, graph_vars >>

\* support_agent_node: the context is extracted, and the generation step
\* answers or raises.
SupportAgentNode ==
    /\ sa_pc = "agent"
    /\ sa_context' = context_of(sa_messages)
    /\ sa_prompt' = prompt_of(sa_messages[Len(sa_messages)], sa_context'.text)
    /\ \/ \E final_answer \in AgentOutputs("support") :
             sa_response' = final_answer /\ sa_pc' = "done"
       \/ sa_pc' = "raised" /\ UNCHANGED sa_response
    /\ UNCHANGED sa_messages
    /\ UNCHANGED << vars, server_vars, backend_vars, da_vars, graph_vars >>

SupportNext == SupportReceive \/ SupportAgentNode

SupportSpec == Init /\ [][SupportNext]_support_vars





(***************************************************************************)
(* Vocabulary of the properties.                                           *)
(***************************************************************************)
IsData == classification = <<"D","A","T","A">>  \* "DATA"
IsCoordination == classification = <<"C","O","O","R","D","I","N","A","T","I","O","N">>  \* "COORDINATION"
IsSupport == classification = <<"S","U","P","P","O","R","T">>  \* "SUPPORT"
Labels == { <<"D","A","T","A">>, <<"S","U","P","P","O","R","T">>, <<"C","O","O","R","D","I","N","A","T","I","O","N">> }  \* "DATA", "SUPPORT", "COORDINATION"
Unrecognized == classified_by = "llm" /\ classification \notin Labels

\* text begins with prefix.
StartsWith(text, prefix) == HasAt(text, 1, prefix)

\* router_agent_node has returned or raised.
Ended == pc \in { "done", "raised" }

TotalCalls == calls["customer_data"] + calls["support"]
TotalPosts == posts["customer_data"] + posts["support"]

\* Both requests of the call to agent a failed at the transport layer.
FailedEntirely(a) ==
    /\ attempts[a].primary \in TransportFailures
    /\ attempts[a].fallback \in TransportFailures

\* The keyword heuristics as the specification words them.
SpecKeywordMode(q) ==
    IF \E w \in { <<"h","e","l","p">>, <<"u","p","g","r","a","d","e">>, <<"r","e","f","u","n","d">>, <<"c","a","n","c","e","l">>, <<"b","i","l","l","i","n","g">>,  \* "help", "upgrade", "refund", "cancel", "billing"
                  <<"c","h","a","r","g","e","d">> } : Contains(w, lower(q))  \* "charged"
    THEN <<"C","O","O","R","D","I","N","A","T","I","O","N">>  \* "COORDINATION"
    ELSE IF \E w \in { <<"g","e","t">>, <<"s","h","o","w">>, <<"l","i","s","t">>, <<"u","p","d","a","t","e">> } : Contains(w, lower(q))  \* "get", "show", "list", "update"
    THEN <<"D","A","T","A">>  \* "DATA"
    ELSE <<"S","U","P","P","O","R","T">>  \* "SUPPORT"

\* The same heuristics without the word "charged".
KeywordMode(q) ==
    IF \E w \in { <<"h","e","l","p">>, <<"u","p","g","r","a","d","e">>, <<"r","e","f","u","n","d">>, <<"c","a","n","c","e","l">>, <<"b","i","l","l","i","n","g">> } :  \* "help", "upgrade", "refund", "cancel", "billing"
           Contains(w, lower(q))
    THEN <<"C","O","O","R","D","I","N","A","T","I","O","N">>  \* "COORDINATION"
    ELSE IF \E w \in { <<"g","e","t">>, <<"s","h","o","w">>, <<"l","i","s","t">>, <<"u","p","d","a","t","e">> } : Contains(w, lower(q))  \* "get", "show", "list", "update"
    THEN <<"D","A","T","A">>  \* "DATA"
    ELSE <<"S","U","P","P","O","R","T">>  \* "SUPPORT"

(***************************************************************************)
(* C1: in every request classified COORDINATION the Data Agent is called   *)
(* exactly once, then the Support Agent exactly once and only after the    *)
(* Data Agent call has returned; the message to the Support Agent contains *)
(* the original query and the Data Agent's raw result, and the final       *)
(* response is the Support Agent's output.                                 *)
(***************************************************************************)
C1_CoordinationCallsDataThenSupport ==
    IsCoordination =>
        /\ calls["customer_data"] = 1
        /\ calls["support"] <= 1
        /\ calls["support"] = 1 =>
              /\ data_result # None
              /\ Contains(user_query, sent["support"])
              /\ Contains(data_result, sent["support"])
        /\ Ended =>
              /\ calls["support"] = 1
              /\ response = <<"C","o","o","r","d","i","n","a","t","e","d"," ","R","e","s","p","o","n","s","e",":"," ">> \o support_result  \* "Coordinated Response: "

(***************************************************************************)
(* C2, in one state: when the Data Agent call of a COORDINATION request    *)
(* fails entirely                                                          *)
(* (primary and fallback request both fail at the transport layer), the    *)
(* request does not abort: the Support Agent is invoked with a context     *)
(* that carries the error, and the Router goes on to return a non-empty    *)
(* response.                                                               *)
(***************************************************************************)
C2_SupportInvokedWithError ==
    (IsCoordination /\ FailedEntirely("customer_data")) =>
        /\ pc \in { "primary", "fallback", "done" }
        /\ raised = None
        /\ calls["support"] = 1
        /\ analysed_by = "synthetic"
        /\ StartsWith(data_result, <<"E","R","R","O","R",":">>)  \* "ERROR:"
        /\ StartsWith(analysis, <<"C","u","s","t","o","m","e","r"," ","d","a","t","a"," ","r","e","t","r","i","e","v","a","l"," ","f","a","i","l","e","d",":"," ","E","R","R","O","R",":">>)  \* "Customer data retrieval failed: ERROR:"
        /\ sent["support"] = <<"C","u","s","t","o","m","e","r"," ","Q","u","e","r","y",":"," ">> \o user_query  \* "Customer Query: "
                                 \o <<"\n","\n","D","a","t","a"," ","A","g","e","n","t"," ","R","e","s","u","l","t",":"," ">> \o data_result  \* "\n\nData Agent Result: "
                                 \o <<"\n","\n","S","u","p","p","o","r","t"," ","C","o","n","t","e","x","t",":"," ">> \o analysis  \* "\n\nSupport Context: "
        /\ pc # "done" => callee = "support"
        /\ pc = "done" => response # None /\ Len(response) > 0

\* C2: the safety part above holds in every state, and once the Data Agent
\* call has failed entirely the request goes on until the Router has responded.
C2_CoordinationSurvivesDataFailure ==
    /\ []C2_SupportInvokedWithError
    /\ (IsCoordination /\ FailedEntirely("customer_data")) ~> pc = "done"

C2_Witness ==
    /\ IsCoordination
    /\ FailedEntirely("customer_data")
    /\ pc = "done"
    /\ attempts["support"].primary = "ok"

C4_FallbackAsSpecified ==
    classified_by = "fallback" =>
        /\ classification = SpecKeywordMode(user_query)
        /\ TotalCalls = 1 /\ pc = "primary" => llm_calls = 1

(***************************************************************************)
(* C4 amended: the fallback is a function of the query text that starts no *)
(* generation step: a query containing (in any letter case) one of help,   *)
(* upgrade, refund, cancel, billing gives COORDINATION, otherwise one       *)
(* containing get, show, list or update gives DATA, otherwise SUPPORT; the *)
(* word "charged" is not among the keywords.  "I need a refund" gives       *)
(* COORDINATION, "show me customer 5" DATA, "what are your hours" SUPPORT. *)
(***************************************************************************)
C4_FallbackIsKeywordFunction ==
    classified_by = "fallback" =>
        /\ classification = KeywordMode(user_query)
        /\ TotalCalls = 1 /\ pc = "primary" => llm_calls = 1
        /\ user_query = <<"I"," ","n","e","e","d"," ","a"," ","r","e","f","u","n","d">> => IsCoordination  \* "I need a refund"
        /\ user_query = <<"s","h","o","w"," ","m","e"," ","c","u","s","t","o","m","e","r"," ","5">> => IsData  \* "show me customer 5"
        /\ user_query = <<"w","h","a","t"," ","a","r","e"," ","y","o","u","r"," ","h","o","u","r","s">> => IsSupport  \* "what are your hours"
        /\ user_query = <<"c","h","a","r","g","e","d">> => IsSupport  \* "charged"

C4_Witness ==
    /\ classified_by = "fallback"
    /\ user_query = <<"s","h","o","w"," ","m","e"," ","c","u","s","t","o","m","e","r"," ","5">>  \* "show me customer 5"
    /\ IsData
    /\ pc = "done"

(***************************************************************************)
(* C5 as stated: a DATA request calls the Data Agent once, never the       *)
(* Support Agent, and returns the Data Agent's result verbatim with no     *)
(* further generation step; a SUPPORT request calls the Support Agent once *)
(* with the raw query and never the Data Agent.                            *)
(***************************************************************************)
C5_SupportGetsRawQuery ==
    /\ IsData =>
          /\ calls["customer_data"] = 1 /\ calls["support"] = 0
          /\ llm_calls = 1
          /\ pc = "done" => response = <<"D","a","t","a"," ","r","e","t","r","i","e","v","e","d",":"," ">> \o data_result  \* "Data retrieved: "
    /\ IsSupport =>
          /\ calls["support"] = 1 /\ calls["customer_data"] = 0
          /\ sent["support"] = user_query

\* m is q, or q followed by one " (Customer ID: N)" with N the digits that
\* follow "customer" or "id" in q.
IsQueryOrAnnotated(m, q) ==
    \/ m = q
    \/ \E i \in 1..Len(q) : \E j \in i..Len(q) :
          /\ \A k \in i..j : q[k] \in DigitChars
          /\ \E w \in { <<"c","u","s","t","o","m","e","r">>, <<"i","d">> } :  \* "customer", "id"
                /\ i > Len(w)
                /\ HasAt(lower(q), i - Len(w), w)
          /\ m = q \o <<" ","(","C","u","s","t","o","m","e","r"," ","I","D",":"," ">> \o SubSeq(q, i, j) \o <<")">>  \* " (Customer ID: ", ")"

(***************************************************************************)
(* C5 amended: a DATA request calls the Data Agent once, never the Support *)
(* Agent, and returns the Data Agent's result verbatim with no further     *)
(* generation step; a SUPPORT request calls the Support Agent once and     *)
(* never the Data Agent, with the query as annotated for dispatch (the raw *)
(* query, followed by a " (Customer ID: N)" suffix when the annotation     *)
(* applies) and no data context.                                           *)
(***************************************************************************)
C5_SingleHopModes ==
    /\ IsData =>
          /\ calls["customer_data"] = 1 /\ calls["support"] = 0
          /\ llm_calls = 1
          /\ IsQueryOrAnnotated(sent["customer_data"], user_query)
          /\ pc = "done" => response = <<"D","a","t","a"," ","r","e","t","r","i","e","v","e","d",":"," ">> \o data_result  \* "Data retrieved: "
    /\ IsSupport =>
          /\ calls["support"] = 1 /\ calls["customer_data"] = 0
          /\ llm_calls = 1
          /\ data_result = None /\ analysis = None
          /\ IsQueryOrAnnotated(sent["support"], user_query)
          /\ pc = "done" => response = <<"S","u","p","p","o","r","t"," ","R","e","s","p","o","n","s","e",":"," ">> \o support_result  \* "Support Response: "

C5_Witness ==
    /\ IsSupport
    /\ pc = "done"
    /\ sent["support"] # user_query

\* The error / not-found marker of the COORDINATION branch.
Marked(text) ==
    \/ Contains(<<"E","R","R","O","R">>, text)  \* "ERROR"
    \/ Contains(<<"4","0","4">>, text)  \* "404"
    \/ Contains(<<"n","o","t"," ","f","o","u","n","d">>, lower(text))  \* "not found"

\* The note the Router writes in place of an analysis of a failed lookup.
IsFailureNote(note, result) ==
    note = <<"C","u","s","t","o","m","e","r"," ","d","a","t","a"," ","r","e","t","r","i","e","v","a","l"," ","f","a","i","l","e","d",":"," ">> \o result  \* "Customer data retrieval failed: "
               \o <<"."," ","T","h","e"," ","c","u","s","t","o","m","e","r"," ","I","D"," ","m","a","y"," ","n","o","t"," ","e","x","i","s","t"," ","i","n"," ","t","h","e"," ","d","a","t","a","b","a","s","e",".">>  \* ". The customer ID may not exist in the database."

\* m is the composite message made of query q, data result d and context a.
IsComposite(m, q, d, a) ==
    m = <<"C","u","s","t","o","m","e","r"," ","Q","u","e","r","y",":"," ">> \o q \o <<"\n","\n","D","a","t","a"," ","A","g","e","n","t"," ","R","e","s","u","l","t",":"," ">> \o d  \* "Customer Query: ", "\n\nData Agent Result: "
            \o <<"\n","\n","S","u","p","p","o","r","t"," ","C","o","n","t","e","x","t",":"," ">> \o a  \* "\n\nSupport Context: "

(***************************************************************************)
(* C6: on the COORDINATION path, a Data Agent result that carries an       *)
(* error / not-found marker is never analysed by the generation step: the  *)
(* Router builds a note saying that the retrieval failed and the id may    *)
(* not exist and passes it as the support context.  The analysis step runs *)
(* only on results without a marker.                                       *)
(***************************************************************************)
C6_MarkerSkipsAnalysis ==
    /\ (pc = "analyze" \/ analysed_by # "none" \/ llm_calls > 1) =>
          IsCoordination /\ data_result # None
    /\ (IsCoordination /\ data_result # None) =>
          IF Marked(data_result)
          THEN /\ pc # "analyze" /\ analysed_by = "synthetic"
               /\ llm_calls = 1 /\ raised = None
               /\ IsFailureNote(analysis, data_result)
               /\ calls["support"] = 1
               /\ IsComposite(sent["support"], user_query, data_result, analysis)
          ELSE /\ analysed_by # "synthetic"
               /\ pc = "analyze" => calls["support"] = 0 /\ llm_calls = 1
               /\ calls["support"] = 1 =>
                     /\ analysed_by = "llm" /\ llm_calls = 2
                     /\ analysis \in AnalysisOutputs
                     /\ IsComposite(sent["support"], user_query, data_result, analysis)

C6_Witness ==
    /\ IsCoordination
    /\ data_result = <<"C","u","s","t","o","m","e","r"," ","N","o","t"," ","F","o","u","n","d">>  \* "Customer Not Found"
    /\ analysed_by = "synthetic"
    /\ pc = "done"

Result(a) == IF a = "customer_data" THEN data_result ELSE support_result

(***************************************************************************)
(* C7: a call to a downstream agent whose requests fail at the transport   *)
(* layer (connection failure, timeout, non-2xx status) raises nothing in   *)
(* router_agent_node: call_a2a_agent returns a text "ERROR: ..." and the   *)
(* Router goes on with it as with any other data or support result.        *)
(***************************************************************************)
C7_TransportFailureBecomesErrorText ==
    /\ \A a \in Agents :
          attempts[a].primary \in TransportFailures =>
              \/ pc = "fallback" /\ callee = a /\ Result(a) = None
              \/ attempts[a].fallback # "none" /\ Result(a) # None
    /\ \A a \in Agents :
          FailedEntirely(a) =>
              /\ StartsWith(Result(a), <<"E","R","R","O","R",":"," ">>)  \* "ERROR: "
              /\ raised = None
    /\ FailedEntirely("customer_data") =>
          IF IsData
          THEN pc = "done" /\ response = <<"D","a","t","a"," ","r","e","t","r","i","e","v","e","d",":"," ">> \o data_result  \* "Data retrieved: "
          ELSE calls["support"] = 1 /\ Contains(data_result, sent["support"])
    /\ FailedEntirely("support") =>
          /\ pc = "done"
          /\ \E i \in 1..Len(response) :
                 SubSeq(response, i, Len(response)) = support_result
    /\ raised # None => pc = "raised" /\ calls["support"] = 0 /\ data_result # None

C7_Witness ==
    /\ FailedEntirely("support")
    /\ attempts["support"].primary = "timeout"
    /\ attempts["support"].fallback = "http_error"
    /\ pc = "done"

(***************************************************************************)
(* C8: the plain fallback request is attempted exactly when the primary    *)
(* request failed at the transport layer, and before call_a2a_agent        *)
(* returns anything; the "Failed to call agent" error is returned only     *)
(* after both requests failed; a primary request that was answered, a      *)
(* JSON-RPC error answer included, is never followed by a fallback.        *)
(***************************************************************************)
C8_FallbackBeforeError ==
    \A a \in Agents :
        /\ attempts[a].fallback # "none" => attempts[a].primary \in TransportFailures
        /\ (attempts[a].primary \in TransportFailures /\ Result(a) # None) =>
               attempts[a].fallback # "none"
        /\ attempts[a].primary \in { "ok", "rpc_error" } =>
               /\ attempts[a].fallback = "none"
               /\ posts[a] = 1
               /\ Result(a) # None
        /\ (Result(a) # None /\ StartsWith(Result(a), <<"E","R","R","O","R",":"," ","F","a","i","l","e","d"," ","t","o"," ","c","a","l","l"," ","a","g","e","n","t">>)) =>  \* "ERROR: Failed to call agent"
               FailedEntirely(a) /\ posts[a] = 2
        /\ posts[a] = (IF attempts[a].primary = "none" THEN 0 ELSE 1)
                          + (IF attempts[a].fallback = "none" THEN 0 ELSE 1)

C8_Witness ==
    /\ attempts["customer_data"].primary = "rpc_error"
    /\ attempts["support"].primary = "timeout"
    /\ attempts["support"].fallback = "ok"
    /\ pc = "done"

(***************************************************************************)
(* C9: no operation is retried: for one call of call_a2a_agent the agent   *)
(* behind it is asked to process the query at most once, also when the     *)
(* first request times out after the agent has started processing.         *)
(***************************************************************************)
C9_ProcessedAtMostOncePerCall ==
    \A a \in Agents : processed[a] <= calls[a]

(***************************************************************************)
(* C10: every Router request completes with a response whatever the        *)
(* downstream agents do: at most two calls of call_a2a_agent and four      *)
(* HTTP POSTs, and no path that ends anywhere but in the respond step.     *)
(***************************************************************************)
C10_EveryRequestResponds ==
    /\ TotalCalls <= 2
    /\ TotalPosts <= 4
    /\ pc # "raised"
    /\ pc = "done" => response # None

(***************************************************************************)
(* Vocabulary of the properties of an agent server and the Tool Backend.   *)
(***************************************************************************)
\* The operation a Tool Backend request asks for (Null: none of the five).
OpName(r) ==
    CASE r.endpoint = "call_tool" -> get(r.request, "name")
      [] r.endpoint = "update_customer_rest" -> Text(<<"u","p","d","a","t","e","_","c","u","s","t","o","m","e","r">>)  \* "update_customer"
      [] r.endpoint = "server.get_customer" -> Text(<<"g","e","t","_","c","u","s","t","o","m","e","r">>)  \* "get_customer"
      [] r.endpoint = "server.update_customer" ->
            IF r.data.decoded THEN Text(<<"u","p","d","a","t","e","_","c","u","s","t","o","m","e","r">>) ELSE Null  \* "update_customer"
      [] r.endpoint = "server.create_ticket" -> Text(<<"c","r","e","a","t","e","_","t","i","c","k","e","t">>)  \* "create_ticket"
      [] OTHER -> Null

\* Its argument mapping.
OpArguments(r) ==
    CASE r.endpoint = "call_tool" ->
            IF "arguments" \in DOMAIN r.request THEN r.request.arguments ELSE <<>>
      [] r.endpoint = "update_customer_rest" -> ("customer_id" :> r.customer_id) @@ r.data
      [] r.endpoint = "server.get_customer" -> "customer_id" :> r.customer_id
      [] r.endpoint = "server.update_customer" ->
            ("customer_id" :> r.customer_id) @@ (IF r.data.decoded THEN r.data.value ELSE <<>>)
      [] r.endpoint = "server.create_ticket" ->
            ("customer_id" :> r.customer_id) @@ ("issue" :> r.issue) @@ r.arguments
      [] OTHER -> <<>>

\* The patch of an update_customer request, and its non-null part.
PatchOf(r) == [k \in (DOMAIN OpArguments(r)) \ { "customer_id" } |-> OpArguments(r)[k]]
NonNull(patch) == [k \in { c \in DOMAIN patch : patch[c] # Null } |-> patch[k]]

IsInteger(v) == "int" \in DOMAIN v

\* Whether a key is in the mapping with a value other than null.
Present(mapping, key) == key \in DOMAIN mapping /\ mapping[key] # Null

\* The kinds of answer of the Tool Backend.
Succeeded(resp) ==
    IF "status" \in DOMAIN resp THEN resp.status = 200
    ELSE IF "json" \in DOMAIN resp THEN TRUE
    ELSE ~StartsWith(resp.text, <<"E","r","r","o","r">>) /\ ~StartsWith(resp.text, <<"D","a","t","a","b","a","s","e"," ","E","r","r","o","r">>)  \* "Error", "Database Error"

NotFound(resp) ==
    IF "status" \in DOMAIN resp THEN resp.status = 404
    ELSE /\ "text" \in DOMAIN resp
         /\ \/ Contains(<<"n","o","t"," ","f","o","u","n","d">>, resp.text)  \* "not found"
            \/ Contains(<<"d","o","e","s"," ","n","o","t"," ","e","x","i","s","t">>, resp.text)  \* "does not exist"

InvalidArgument(resp) ==
    IF "status" \in DOMAIN resp THEN resp.status = 400
    ELSE "text" \in DOMAIN resp /\ StartsWith(resp.text, <<"E","r","r","o","r",":">>) /\ ~NotFound(resp)  \* "Error:"

\* The record an operation hands back, whatever the endpoint.
Payload(resp) == IF "json" \in DOMAIN resp THEN resp.json ELSE resp.result

\* This step performs operation op.
Performs(op) == tb_ops' = tb_ops + 1 /\ OpName(tb_request') = Text(op)

StoreUnchanged == customers' = customers /\ tickets' = tickets

HasCustomer(rows, id) == \E i \in 1..Len(rows) : rows[i].id = id

FiveOperations ==
    { <<"g","e","t","_","c","u","s","t","o","m","e","r">>, <<"l","i","s","t","_","c","u","s","t","o","m","e","r","s">>, <<"u","p","d","a","t","e","_","c","u","s","t","o","m","e","r">>, <<"c","r","e","a","t","e","_","t","i","c","k","e","t">>,  \* "get_customer", "list_customers", "update_customer", "create_ticket"
      <<"g","e","t","_","c","u","s","t","o","m","e","r","_","h","i","s","t","o","r","y">> }  \* "get_customer_history"

(***************************************************************************)
(* C11: for every JSON-RPC "invoke" request an agent server handles, the   *)
(* response carries the id of the request and exactly one of result and    *)
(* error: a result with content and messages when the agent succeeded, an  *)
(* error with code and message when the agent raised.                      *)
(***************************************************************************)
C11_InvokeResponseKeepsId ==
    (/\ served.endpoint # "none"
     /\ IsInvoke(served.request)
     /\ "id" \in DOMAIN served.request)
        => /\ served.response.id = served.request.id
           /\ ("result" \in DOMAIN served.response) # ("error" \in DOMAIN served.response)
           /\ served.raised =>
                 /\ "error" \in DOMAIN served.response
                 /\ DOMAIN served.response.error = { "code", "message" }
           /\ (served.invoked /\ ~served.raised) =>
                 /\ "result" \in DOMAIN served.response
                 /\ DOMAIN served.response.result = { "content", "messages" }
                 /\ served.response.result.content \in AgentOutputs(served.agent_id)

\* An agent behind the start_agents.py endpoint raised on a request with a text id.
C11_Witness ==
    /\ served.endpoint = "start_agents"
    /\ IsInvoke(served.request)
    /\ "id" \in DOMAIN served.request
    /\ served.request.id = Text(<<"r","e","q","-","a">>)  \* "req-a"
    /\ served.raised
    /\ served.response.id = Text(<<"r","e","q","-","a">>)  \* "req-a"
    /\ "error" \in DOMAIN served.response

(***************************************************************************)
(* C12: get_customer returns the record whose id is the requested id when  *)
(* the store has a customer of that id, fails with NotFound when it has    *)
(* none (0 included), and leaves the store unchanged in both cases.        *)
(***************************************************************************)
C12_GetCustomerFindsOrNotFound ==
    [][ (/\ Performs(<<"g","e","t","_","c","u","s","t","o","m","e","r">>)  \* "get_customer"
         /\ Present(OpArguments(tb_request'), "customer_id")
         /\ IsInteger(OpArguments(tb_request')["customer_id"]))
           => /\ StoreUnchanged
              /\ IF HasCustomer(customers, OpArguments(tb_request')["customer_id"])
                 THEN /\ Succeeded(tb_response')
                      /\ Payload(tb_response').id = OpArguments(tb_request')["customer_id"]
                 ELSE NotFound(tb_response')
      ]_backend_vars

(***************************************************************************)
(* C13: update_customer(id, {}) with an empty patch succeeds for every id  *)
(* and alters no stored field of any customer.                             *)
(***************************************************************************)
C13_EmptyPatchIsNoOpSuccess ==
    [][ (/\ Performs(<<"u","p","d","a","t","e","_","c","u","s","t","o","m","e","r">>)  \* "update_customer"
         /\ Present(OpArguments(tb_request'), "customer_id")
         /\ DOMAIN PatchOf(tb_request') = {})
           => /\ Succeeded(tb_response')
              /\ StoreUnchanged
      ]_backend_vars

(***************************************************************************)
(* C14: update_customer with a patch that has keys, none of them one of    *)
(* name, email, phone, status, succeeds and leaves the store unchanged.    *)
(***************************************************************************)
C14_UnrecognizedPatchIsNoOpSuccess ==
    [][ (/\ Performs(<<"u","p","d","a","t","e","_","c","u","s","t","o","m","e","r">>)  \* "update_customer"
         /\ Present(OpArguments(tb_request'), "customer_id")
         /\ DOMAIN PatchOf(tb_request') # {}
         /\ DOMAIN PatchOf(tb_request') \cap valid_keys = {})
           => /\ Succeeded(tb_response')
              /\ StoreUnchanged
      ]_backend_vars

(***************************************************************************)
(* C15: update_customer(id, patch) changes exactly the non-null fields of  *)
(* the patch on the customer of that id and nothing else in the store (a   *)
(* null field counts as left out); without a customer of that id it fails  *)
(* with NotFound and the store is unchanged.                               *)
(***************************************************************************)
C15_UpdateChangesExactlyThePatch ==
    [][ (/\ Performs(<<"u","p","d","a","t","e","_","c","u","s","t","o","m","e","r">>)  \* "update_customer"
         /\ Present(OpArguments(tb_request'), "customer_id"))
           => LET id == OpArguments(tb_request')["customer_id"]
                  patch == NonNull(PatchOf(tb_request'))
              IN  /\ tickets' = tickets
                  /\ IF HasCustomer(customers, id)
                     THEN customers' = [i \in 1..Len(customers) |->
                                           IF customers[i].id = id
                                           THEN SetColumns(customers[i], patch)
                                           ELSE customers[i]]
                     ELSE NotFound(tb_response') /\ customers' = customers
      ]_backend_vars

(***************************************************************************)
(* C16: create_ticket with customer_id, issue and a valid priority all     *)
(* present inserts exactly one ticket, of status "open", and returns its   *)
(* id; with one of the three missing it fails with InvalidArgument and     *)
(* the ticket table is unchanged.                                          *)
(***************************************************************************)
C16_CreateTicketInsertsOrInvalidArgument ==
    [][ Performs(<<"c","r","e","a","t","e","_","t","i","c","k","e","t">>)  \* "create_ticket"
           => LET args == OpArguments(tb_request')
              IN  IF /\ Present(args, "customer_id")
                     /\ Present(args, "issue")
                     /\ Present(args, "priority")
                  THEN args["priority"] \in TicketPriorities
                          => /\ Len(tickets') = Len(tickets) + 1
                             /\ SubSeq(tickets', 1, Len(tickets)) = tickets
                             /\ tickets'[Len(tickets')].status = Text(<<"o","p","e","n">>)  \* "open"
                             /\ Succeeded(tb_response')
                  ELSE InvalidArgument(tb_response') /\ tickets' = tickets
      ]_backend_vars

(***************************************************************************)
(* C17: after any sequence of Tool Backend operations every customer has   *)
(* the id it started with and no two customers have the same id.           *)
(***************************************************************************)
C17_CustomerIdsImmutableAndUnique ==
    /\ Len(customers) = Len(InitialCustomers)
    /\ \A i \in 1..Len(customers) : customers[i].id = InitialCustomers[i].id
    /\ \A i, j \in 1..Len(customers) : customers[i].id = customers[j].id => i = j

C19_UnknownToolNotFoundListsTools ==
    [][ (/\ tb_ops' = tb_ops + 1
         /\ tb_request'.endpoint = "call_tool"
         /\ str(get(tb_request'.request, "name")) \notin FiveOperations)
           => /\ tb_response'.status = 404
              /\ \A op \in FiveOperations : Contains(op, tb_response'.detail)
              /\ StoreUnchanged
      ]_backend_vars

\* call_tool turned down the operation delete_customer after a ticket was made.
C19_Witness ==
    /\ tb_request.endpoint = "call_tool"
    /\ get(tb_request.request, "name") = Text(<<"d","e","l","e","t","e","_","c","u","s","t","o","m","e","r">>)  \* "delete_customer"
    /\ tb_response.status = 404
    /\ Contains(<<"'","d","e","l","e","t","e","_","c","u","s","t","o","m","e","r","'"," ","n","o","t"," ","f","o","u","n","d">>, tb_response.detail)  \* "'delete_customer' not found"
    /\ Len(tickets) = Len(InitialTickets) + 1

(***************************************************************************)
(* C20: whatever the query text is, a get_customer tool call of the Data   *)
(* Agent whose arguments are exactly {"__arg1": d}, d a text of decimal    *)
(* digits, is run as get_customer with the arguments                       *)
(* {"customer_id": int(d)}, and these are the arguments of the one request *)
(* the round posts to the Tool Backend.                                    *)
(***************************************************************************)
\* The arguments of a tool call are {"__arg1": d} with d a text of decimal digits.
IsArg1Digits(args) ==
    /\ DOMAIN args = { "__arg1" }
    /\ "str" \in DOMAIN args["__arg1"]
    /\ isdecimal(args["__arg1"].str)

\* The Data Agent is about to run this get_customer tool call.
RunsArg1Digits ==
    /\ da_pc = "tools"
    /\ Head(da_tool_calls).name = <<"g","e","t","_","c","u","s","t","o","m","e","r">>  \* "get_customer"
    /\ IsArg1Digits(Head(da_tool_calls).args)

C20_Arg1DigitsBecomeCustomerId ==
    [][ RunsArg1Digits
           => LET customer_id == Num(int_of(Head(da_tool_calls).args["__arg1"].str))
              IN  /\ Len(da_rounds') = Len(da_rounds) + 1
                  /\ da_rounds'[Len(da_rounds')].call = Head(da_tool_calls)
                  /\ da_rounds'[Len(da_rounds')].tool_name = <<"g","e","t","_","c","u","s","t","o","m","e","r">>  \* "get_customer"
                  /\ da_rounds'[Len(da_rounds')].tool_args = ("customer_id" :> customer_id)
                  /\ da_rounds'[Len(da_rounds')].requests
                        = << [name |-> Text(<<"g","e","t","_","c","u","s","t","o","m","e","r">>),  \* "get_customer"
                              arguments |-> ("customer_id" :> customer_id)] >>
      ]_data_agent_vars

\* {"__arg1": "12345"} was run for a query that names customer 5, and the Tool
\* Backend was asked for customer 12345.
C20_Witness ==
    /\ da_query = <<"s","h","o","w"," ","m","e"," ","c","u","s","t","o","m","e","r"," ","5">>  \* "show me customer 5"
    /\ Len(da_rounds) = 1
    /\ da_rounds[1].call = ToolCall(<<"g","e","t","_","c","u","s","t","o","m","e","r">>, "__arg1" :> Text(<<"1","2","3","4","5">>))  \* "get_customer", "12345"
    /\ da_rounds[1].tool_args = ("customer_id" :> Num(12345))
    /\ da_requests = << [name |-> Text(<<"g","e","t","_","c","u","s","t","o","m","e","r">>),  \* "get_customer"
                         arguments |-> ("customer_id" :> Num(12345))] >>
    /\ da_all_results = << <<"g","e","t","_","c","u","s","t","o","m","e","r",":"," ","E","R","R","O","R",":"," ","C","u","s","t","o","m","e","r"," ","1","2","3","4","5"," ","n","o","t"," ","f","o","u","n","d">> >>  \* "get_customer: ERROR: Customer 12345 not found"

(***************************************************************************)
(* C21. The Router's customer-id annotation is idempotent and purely       *)
(* additive: the annotated query begins with the original query, what is   *)
(* added is nothing or one " (Customer ID: N)" suffix, and annotating the  *)
(* annotated query again returns it unchanged.                             *)
(***************************************************************************)
\* text is made of decimal digits only, and of at least one.
IsDigits(text) == Len(text) > 0 /\ \A k \in 1..Len(text) : text[k] \in DigitChars

\* added is nothing, or one " (Customer ID: N)" suffix.
IsOneSuffixOrNothing(added) ==
    \/ added = <<>>
    \/ /\ Len(added) > Len(<<" ","(","C","u","s","t","o","m","e","r"," ","I","D",":"," ",")">>)  \* " (Customer ID: )"
       /\ StartsWith(added, <<" ","(","C","u","s","t","o","m","e","r"," ","I","D",":"," ">>)  \* " (Customer ID: "
       /\ added[Len(added)] = ")"
       /\ IsDigits(SubSeq(added, Len(<<" ","(","C","u","s","t","o","m","e","r"," ","I","D",":"," ">>) + 1, Len(added) - 1))  \* " (Customer ID: "

C21_AnnotationIdempotentAdditive ==
    enhanced_query # None
       => /\ StartsWith(enhanced_query, user_query)
          /\ IsOneSuffixOrNothing(SubSeq(enhanced_query, Len(user_query) + 1, Len(enhanced_query)))
          /\ enhanced_query_of(enhanced_query) = enhanced_query

\* The annotation is additive: prefix and one suffix (the part of C21 that holds).
C21_AnnotationAdditive ==
    enhanced_query # None
       => /\ StartsWith(enhanced_query, user_query)
          /\ IsOneSuffixOrNothing(SubSeq(enhanced_query, Len(user_query) + 1, Len(enhanced_query)))

(***************************************************************************)
(* C22. For a tool call that needs a customer id (get_customer,            *)
(* update_customer, get_customer_history, create_ticket) whose structured  *)
(* customer_id argument is missing or is not an integer, run for a query   *)
(* with digits after "customer" or "id", the Data Agent invokes the Tool   *)
(* Backend with the id extracted from the query.                           *)
(***************************************************************************)
NeedsCustomerId ==
    { <<"g","e","t","_","c","u","s","t","o","m","e","r">>, <<"u","p","d","a","t","e","_","c","u","s","t","o","m","e","r">>, <<"g","e","t","_","c","u","s","t","o","m","e","r","_","h","i","s","t","o","r","y">>, <<"c","r","e","a","t","e","_","t","i","c","k","e","t">> }  \* "get_customer", "update_customer", "get_customer_history", "create_ticket"

\* value is an integer, or a text of decimal digits.
IsParseableId(value) ==
    \/ "int" \in DOMAIN value
    \/ "str" \in DOMAIN value /\ isdecimal(value.str)

\* The arguments carry a customer id that parses: under customer_id, or as the
\* one positional argument of get_customer (C20).
SuppliesId(call) ==
    \/ "customer_id" \in DOMAIN call.args /\ IsParseableId(call.args["customer_id"])
    \/ call.name = <<"g","e","t","_","c","u","s","t","o","m","e","r">> /\ IsArg1Digits(call.args)  \* "get_customer"

\* The Data Agent is about to run a tool call that needs an id, has none that
\* parses, and the query names one.
RunsWithoutId ==
    /\ da_pc = "tools"
    /\ Head(da_tool_calls).name \in NeedsCustomerId
    /\ ~SuppliesId(Head(da_tool_calls))
    /\ extracted_id_of(da_query) # Null

C22_MissingIdTakenFromQuery ==
    [][ RunsWithoutId
           => /\ Len(da_rounds') = Len(da_rounds) + 1
              /\ \E k \in 1..Len(da_rounds'[Len(da_rounds')].requests) :
                    LET request == da_rounds'[Len(da_rounds')].requests[k]
                    IN  /\ "customer_id" \in DOMAIN request.arguments
                        /\ request.arguments["customer_id"] = extracted_id_of(da_query)
      ]_data_agent_vars

(***************************************************************************)
(* C23. When the generation step emits no tool call, the result of the     *)
(* Data Agent never contains the chat text of the generation step: it is   *)
(* made of the fragments of a rule pass over the query (tool outputs,      *)
(* error entries, the could-not-determine message) or is the no-data       *)
(* message. Stated for the node of a2a_agents.py and for the node of the   *)
(* single-process graph of agents.py.                                      *)
(***************************************************************************)
\* The node of a2a_agents.py returned after a generation step without tool call.
RulePassReturned == da_pc = "done" /\ da_content # None /\ Len(da_rounds) = 0
                       /\ da_tool_calls = <<>> /\ ~StartsWith(da_response, <<"E","r","r","o","r"," ","i","n"," ","D","a","t","a"," ","A","g","e","n","t",":"," ">>)  \* "Error in Data Agent: "

\* A fragment of the rule pass: a tool output under its operation name, an
\* error entry, or the could-not-determine message.
IsRulePassFragment(fragment) ==
    \/ \E name \in DataAgentTools \cup { <<"f","i","l","t","e","r","e","d","_","r","e","s","u","l","t","s">> } : StartsWith(fragment, name \o <<":"," ">>)  \* "filtered_results", ": "
    \/ StartsWith(fragment, <<"E","r","r","o","r">>)  \* "Error"
    \/ fragment = <<"C","o","u","l","d"," ","n","o","t"," ","d","e","t","e","r","m","i","n","e"," ","a","c","t","i","o","n"," ","f","r","o","m"," ","q","u","e","r","y",":"," ">> \o da_query  \* "Could not determine action from query: "

A2aRulePassHasNoChatText ==
    RulePassReturned
       => /\ da_content # <<>> => ~Contains(da_content, da_response)
          /\ \A k \in 1..Len(da_all_results) : IsRulePassFragment(da_all_results[k])
          /\ da_response = <<"D","a","t","a"," ","A","g","e","n","t"," ","R","e","s","u","l","t",":"," ">> \o data_result_of(da_all_results)  \* "Data Agent Result: "

\* The data node of agents.py ran a generation step that emitted chat text
\* and no tool call.
GraphChatOnly ==
    /\ g_ai_msg.produced = "yes"
    /\ Len(g_ai_msg.tool_calls) = 0
    /\ g_ai_msg.content # <<>>

GraphNoToolCallHasNoChatText == GraphChatOnly => ~Contains(g_ai_msg.content, g_context)

C23_NoToolCallResultHasNoChatText ==
    A2aRulePassHasNoChatText /\ GraphNoToolCallHasNoChatText

(***************************************************************************)
(* C24. When a list_customers call meets a query about open tickets, the   *)
(* Data Agent asks for the ticket history of the first 20 customers of the *)
(* returned list at most, in list order; the filtered_results payload      *)
(* holds only customers with an open ticket and, for each, only their open *)
(* tickets; and the raw list fragment is part of the result too.           *)
(***************************************************************************)
\* What a step of the Data Agent posts to the Tool Backend and appends to
\* all_results.
NewRequests == SubSeq(da_requests', Len(da_requests) + 1, Len(da_requests'))
NewFragments == SubSeq(da_all_results', Len(da_all_results) + 1, Len(da_all_results'))

\* The step lists customers for a query about open tickets, and the list
\* request is answered.
ListsForOpenTickets ==
    /\ AsksForOpenTickets(da_query)
    /\ Len(NewRequests) > 0
    /\ NewRequests[1].name = Text(<<"l","i","s","t","_","c","u","s","t","o","m","e","r","s">>)  \* "list_customers"
    /\ Len(NewFragments) > 0
    /\ ~StartsWith(NewFragments[1], <<"l","i","s","t","_","c","u","s","t","o","m","e","r","s",":"," ","E","R","R","O","R">>)  \* "list_customers: ERROR"

\* The customers the list request returns from the store.
Listed(request) ==
    Limit(SelectCustomers(customers,
                          IF "status" \in DOMAIN request.arguments
                          THEN request.arguments["status"] ELSE Null),
          request.arguments["limit"].int)

\* The open tickets of a customer in the store.
OpenTicketsOf(customer) ==
    LET IsOpenOfCustomer(t) == t.customer_id = customer.id /\ t.status = Text(<<"o","p","e","n">>)  \* "open"
    IN  SelectSeq(tickets, IsOpenOfCustomer)

\* The entries for the customers i..n of listed whose history was answered.
RECURSIVE OpenTicketEntries(_, _, _, _)
OpenTicketEntries(listed, i, n, refused) ==
    IF i > n THEN <<>>
    ELSE (IF i \in refused \/ Len(OpenTicketsOf(listed[i])) = 0 THEN <<>>
          ELSE << Dict(<< << <<"c","u","s","t","o","m","e","r","_","i","d">>, listed[i].id >>,  \* "customer_id"
                          << <<"c","u","s","t","o","m","e","r","_","n","a","m","e">>, listed[i].name >>,  \* "customer_name"
                          << <<"c","u","s","t","o","m","e","r","_","e","m","a","i","l">>, listed[i].email >>,  \* "customer_email"
                          << <<"o","p","e","n","_","t","i","c","k","e","t","s">>,  \* "open_tickets"
                             List([k \in 1..Len(OpenTicketsOf(listed[i])) |->
                                     RowDict(OpenTicketsOf(listed[i])[k],
                                             TicketColumnOrder)]) >> >>) >>)
            \o OpenTicketEntries(listed, i + 1, n, refused)

\* The fragments after the raw list are the payload of entries, or at most a
\* note that there is none.
IsFilteredResults(fragments, entries) ==
    IF Len(entries) > 0
    THEN fragments = << <<"f","i","l","t","e","r","e","d","_","r","e","s","u","l","t","s",":"," ">> \o dumps(List(entries), 0) >>  \* "filtered_results: "
    ELSE fragments \in { <<>>, << <<"N","o"," ","a","c","t","i","v","e"," ","c","u","s","t","o","m","e","r","s"," ","w","i","t","h"," ","o","p","e","n"," ","t","i","c","k","e","t","s"," ","f","o","u","n","d">> >> }  \* "No active customers with open tickets found"

FirstTwentyOpenTickets(listed, n) ==
    /\ Len(NewRequests) = 1 + n
    /\ \A i \in 1..n :
          NewRequests[i + 1] = [name |-> Text(<<"g","e","t","_","c","u","s","t","o","m","e","r","_","h","i","s","t","o","r","y">>),  \* "get_customer_history"
                                arguments |-> ("customer_id" :> listed[i].id)]
    /\ NewFragments[1]
          = <<"l","i","s","t","_","c","u","s","t","o","m","e","r","s",":"," ">>  \* "list_customers: "
               \o dumps(List([i \in 1..Len(listed) |->
                                 RowDict(listed[i], CustomerColumnOrder)]), 0)
    /\ \E refused \in { {}, { 1 }, 1..n } :
          IsFilteredResults(Tail(NewFragments), OpenTicketEntries(listed, 1, n, refused))

RequestedToolCalls == [i \in 1..Len(da_rounds) |-> da_rounds[i].call] \o da_tool_calls

\* The fragments of the rounds, in order.
RECURSIVE FragmentsOf(_)
FragmentsOf(rounds) ==
    IF Len(rounds) = 0 THEN <<>> ELSE Head(rounds).fragments \o FragmentsOf(Tail(rounds))

\* The fragment reports the round's operation or its failure.
IsFragmentOf(round, fragment) ==
    \/ StartsWith(fragment, round.tool_name \o <<":"," ">>)  \* ": "
    \/ StartsWith(fragment, <<"E","r","r","o","r"," ","e","x","e","c","u","t","i","n","g"," ">> \o round.tool_name \o <<":"," ">>)  \* "Error executing ", ": "

\* The round yields its one fragment; the follow-up of a customer list on a
\* query about open tickets may add its own.
YieldsItsFragment(round) ==
    /\ Len(round.fragments) >= 1
    /\ IsFragmentOf(round, round.fragments[1])
    /\ \/ Len(round.fragments) = 1
       \/ round.tool_name = <<"l","i","s","t","_","c","u","s","t","o","m","e","r","s">> /\ AsksForOpenTickets(da_query)  \* "list_customers"

C25_EveryToolCallYieldsItsFragment ==
    (da_pc = "done" /\ Len(RequestedToolCalls) > 0)
        => /\ Len(da_tool_calls) = 0
           /\ \A i \in 1..Len(da_rounds) : YieldsItsFragment(da_rounds[i])
           /\ da_all_results = FragmentsOf(da_rounds)
           /\ da_response = DataAgentResult(da_all_results)

(***************************************************************************)
(* C26. When the Support Agent is given a history of several messages, its *)
(* context comes from the most recent earlier message that carries a data  *)
(* result marker; older data result messages are not used; and the query   *)
(* is scanned for JSON-looking text only when no message carries a marker. *)
(***************************************************************************)
\* The message carries a marker of a data result.
CarriesDataResult(content) ==
    \/ Contains(DataResultMarker, content)
    \/ \E keyword \in ToolKeywords : Contains(keyword, content)

EarlierWithDataResult ==
    { k \in 1..(Len(sa_messages) - 1) : CarriesDataResult(sa_messages[k]) }

MostRecentDataResult ==
    sa_messages[CHOOSE k \in EarlierWithDataResult : \A j \in EarlierWithDataResult : j <= k]

C26_ContextFromMostRecentDataResult ==
    (sa_pc \in { "done", "raised" } /\ Len(sa_messages) > 1)
        => /\ EarlierWithDataResult # {}
                => sa_context = [source |-> "messages",
                                 text |-> clean_up(data_part_of(MostRecentDataResult)[1])]
           /\ sa_context.source = "json"
                => \A k \in 1..Len(sa_messages) : ~CarriesDataResult(sa_messages[k])

(***************************************************************************)
(* C27. The Data Agent asks the Tool Backend for update_customer or        *)
(* create_ticket only with a customer id that the tool call supplied or    *)
(* that is written in the query; for a query that names no customer no     *)
(* customer is modified and no ticket is created.                          *)
(***************************************************************************)
IsStateChanging(request) ==
    request.name \in { Text(<<"u","p","d","a","t","e","_","c","u","s","t","o","m","e","r">>), Text(<<"c","r","e","a","t","e","_","t","i","c","k","e","t">>) }  \* "update_customer", "create_ticket"

\* The customer ids the tool call of the step supplies, if the step runs one.
SuppliedIds ==
    IF da_pc # "tools" THEN {}
    ELSE LET args == Head(da_tool_calls).args
             arg1 == IF "__arg1" \in DOMAIN args THEN literal_eval(str(args["__arg1"]))
                     ELSE NotALiteral
         IN  (IF "customer_id" \in DOMAIN args THEN { args["customer_id"] } ELSE {})
               \cup (IF ~arg1.raises /\ IsDict(arg1.value) /\ DictHas(arg1.value, <<"c","u","s","t","o","m","e","r","_","i","d">>)  \* "customer_id"
                     THEN { DictGet(arg1.value, <<"c","u","s","t","o","m","e","r","_","i","d">>) } ELSE {})  \* "customer_id"

\* The number is written in the query.
IsWrittenInQuery(id) == "int" \in DOMAIN id /\ Contains(str_int(id.int), da_query)

\* The query holds no digit at all.
QueryNamesNoCustomer == \A k \in 1..Len(da_query) : da_query[k] \notin DigitChars

C27_StateChangesOnlyForNamedCustomer ==
    [][ /\ \A k \in 1..Len(NewRequests) :
              IsStateChanging(NewRequests[k])
                 => \/ NewRequests[k].arguments["customer_id"] \in SuppliedIds
                    \/ IsWrittenInQuery(NewRequests[k].arguments["customer_id"])
        /\ (QueryNamesNoCustomer /\ SuppliedIds = {})
               => (customers' = customers /\ tickets' = tickets)
      ]_data_agent_vars

(***************************************************************************)
(* C28. Whenever a tool invocation of the Data Agent fails (the Tool       *)
(* Backend answers 400, 404 or 500 or cannot be reached, or the tool       *)
(* raises), the result text of the Data Agent is one the Router's          *)
(* COORDINATION check recognises as failed: it holds "ERROR", or "not      *)
(* found" in any case, or "404".                                           *)
(***************************************************************************)
\* The fragment reports a tool invocation that failed: an error text of
\* call_mcp_tool as the tool's output, or the entry of an except clause.
IsFailureFragment(fragment) ==
    \/ \E tool_name \in DataAgentTools :
          \/ StartsWith(fragment, tool_name \o <<":"," ","E","R","R","O","R",":"," ">>)  \* ": ERROR: "
          \/ StartsWith(fragment, tool_name \o <<":"," ","C","u","s","t","o","m","e","r"," ","n","o","t"," ","f","o","u","n","d",":"," ">>)  \* ": Customer not found: "
          \/ StartsWith(fragment, tool_name \o <<":"," ","I","n","v","a","l","i","d"," ","r","e","q","u","e","s","t",":"," ">>)  \* ": Invalid request: "
          \/ StartsWith(fragment, tool_name \o <<":"," ","H","T","T","P"," ">>)  \* ": HTTP "
          \/ StartsWith(fragment, <<"E","r","r","o","r"," ","e","x","e","c","u","t","i","n","g"," ">> \o tool_name \o <<":"," ">>)  \* "Error executing ", ": "
    \/ StartsWith(fragment, <<"E","r","r","o","r",":"," ">>)  \* "Error: "
    \/ StartsWith(fragment, <<"E","r","r","o","r"," ","g","e","t","t","i","n","g"," ","h","i","s","t","o","r","y",":"," ">>)  \* "Error getting history: "

C28_FailedInvocationIsRecognised ==
    (da_pc = "done" /\ \E k \in 1..Len(da_all_results) : IsFailureFragment(da_all_results[k]))
        => HasErrorMarker(da_response)

(***************************************************************************)
(* C29. Whenever call_a2a_agent gets no successful result from the agent   *)
(* it calls, the text it returns begins with "ERROR:"; this includes the   *)
(* primary request failing at the transport layer and the plain fallback   *)
(* request being answered, with status 200, by a JSON-RPC error object.    *)
(***************************************************************************)
\* The call of agent a has returned, and its last request was not answered
\* with a result.
ReturnedWithoutResult(a) ==
    /\ Result(a) # None
    /\ \/ attempts[a].primary = "rpc_error"
       \/ attempts[a].primary \in TransportFailures /\ attempts[a].fallback # "ok"

C29_UnsuccessfulCallReturnsError ==
    \A a \in Agents : ReturnedWithoutResult(a) => StartsWith(Result(a), <<"E","R","R","O","R",":">>)  \* "ERROR:"

(***************************************************************************)
(* C30. Every run of the single-process graph visits router_node once,     *)
(* then customer_data_agent_node at most once, then support_agent_node     *)
(* once, and ends.  The data node is visited exactly when the label is     *)
(* DATA or COORDINATION; any other label, and a classification exception,  *)
(* go straight to the support node; and when the generation step of the    *)
(* data node fails, the support node still runs, with context "Error".     *)
(***************************************************************************)
ViaDataNode == << "router_node", "customer_data_agent_node", "support_agent_node" >>
StraightToSupport == << "router_node", "support_agent_node" >>

IsPrefix(s, t) == Len(s) <= Len(t) /\ SubSeq(t, 1, Len(s)) = s

GraphEnded == g_pc \in { "end", "raised" }

\* The nodes run so far are the start of one of the two paths, the whole of
\* it once the run has ended, and the node to run next is the next of the path.
VisitsInOrder ==
    \E path \in { ViaDataNode, StraightToSupport } :
       /\ IsPrefix(g_visits, path)
       /\ IF GraphEnded THEN g_visits = path
          ELSE IF g_pc = "start" THEN g_visits = <<>>
          ELSE Len(g_visits) < Len(path) /\ g_pc = path[Len(g_visits) + 1]

\* After router_node: the path goes through the data node exactly when the
\* label is DATA or COORDINATION.
DataNodeIffDataLabel ==
    Len(g_visits) >= 1
       => ((g_response \in { <<"D","A","T","A">>, <<"C","O","O","R","D","I","N","A","T","I","O","N">> })  \* "DATA", "COORDINATION"
             <=> (g_pc = "customer_data_agent_node" \/ IsPrefix(SubSeq(ViaDataNode, 1, 2), g_visits)))

\* A failed generation step of the data node hands over to the support node.
GenerationFailureHandsOver ==
    g_ai_msg.produced = "raised"
       => /\ g_context = <<"E","r","r","o","r">>  \* "Error"
          /\ g_pc = "support_agent_node" \/ (GraphEnded /\ g_visits = ViaDataNode)

=============================================================================
